---- MODULE Spec2Model ----
(***************************************************************************)
(* A model of lib/AST/Type.cpp: the qualifier order, the desugaring        *)
(* traversals, the structural type predicates and the linkage cache.       *)
(*                                                                         *)
(* Type nodes are modelled as terms: a node is a record whose cls field is *)
(* its type class and whose other fields are the node's members.  Nodes    *)
(* are interned by the context, so equal terms are the same node.  A       *)
(* QualType is a record [ty, quals].                                       *)
(***************************************************************************)
EXTENDS Integers, Sequences, FiniteSets, TLC

VARIABLES
    pc,        \* position of the operation under way
    call,      \* the operation under way and its arguments
    ret,       \* the value the operation returned
    loc,       \* the locals of the loop the operation is in
    TypeBits   \* per node, the linkage cache: CacheValid, CachedLinkage, CachedLocalOrUnnamed

vars == <<pc, call, ret, loc, TypeBits>>

NoLoc == [unused |-> TRUE]
NoBits == [unused |-> TRUE]

(***************************************************************************)
(* Qualifiers.  The mask is kept as its four parts: the CVR bits as a set, *)
(* and the ObjC GC attribute, the address space and the ObjC lifetime as   *)
(* values, each with a distinguished "unset" value.                        *)
(***************************************************************************)
MaxAddressSpace == 1

CVRMask == {"const", "volatile", "restrict"}
GCAttrs == {"GCNone", "Weak", "Strong"}
ObjCLifetimes == {"OCL_None", "OCL_ExplicitNone", "OCL_Strong", "OCL_Weak",
                  "OCL_Autoreleasing"}
AddressSpaces == 0..MaxAddressSpace

AllQualifiers ==
    [cvr : SUBSET CVRMask, gc : GCAttrs, as : AddressSpaces, lt : ObjCLifetimes]

NoQuals == [cvr |-> {}, gc |-> "GCNone", as |-> 0, lt |-> "OCL_None"]

hasObjCGCAttr(Q) == Q.gc # "GCNone"
hasAddressSpace(Q) == Q.as # 0
hasObjCLifetime(Q) == Q.lt # "OCL_None"

\* Mutant: the comparison *this != Other is dropped.
isStrictSupersetOf_NoNeq(This, Other) ==
    /\ (This.cvr \cup Other.cvr) = This.cvr
    /\ (This.gc = Other.gc \/ (hasObjCGCAttr(This) /\ ~hasObjCGCAttr(Other)))
    /\ (This.as = Other.as \/ (hasAddressSpace(This) /\ ~hasAddressSpace(Other)))
    /\ (This.lt = Other.lt \/ (hasObjCLifetime(This) /\ ~hasObjCLifetime(Other)))

\* Mutant: the lifetime axis accepts any two lifetimes.
isStrictSupersetOf_AnyLifetime(This, Other) ==
    /\ This # Other
    /\ (This.cvr \cup Other.cvr) = This.cvr
    /\ (This.gc = Other.gc \/ (hasObjCGCAttr(This) /\ ~hasObjCGCAttr(Other)))
    /\ (This.as = Other.as \/ (hasAddressSpace(This) /\ ~hasAddressSpace(Other)))

isStrictSupersetOf(This, Other) ==
    /\ This # Other
    \* CVR qualifiers superset
    /\ (This.cvr \cup Other.cvr) = This.cvr
    \* ObjC GC qualifiers superset
    /\ (This.gc = Other.gc \/ (hasObjCGCAttr(This) /\ ~hasObjCGCAttr(Other)))
    \* Address space superset
    /\ (This.as = Other.as \/ (hasAddressSpace(This) /\ ~hasAddressSpace(Other)))
    \* Lifetime qualifier superset
    /\ (This.lt = Other.lt \/ (hasObjCLifetime(This) /\ ~hasObjCLifetime(Other)))

(***************************************************************************)
(* SpecQual: a caller compares two qualifier sets, in both orders.         *)
(***************************************************************************)
InitQual ==
    /\ pc = "call"
    /\ call \in [fn : {"isStrictSupersetOf"}, This : AllQualifiers, Other : AllQualifiers]
    /\ ret = [fwd |-> FALSE, bwd |-> FALSE]
    /\ loc = NoLoc
    /\ TypeBits = NoBits

CallIsStrictSupersetOf ==
    /\ pc = "call"
    /\ call.fn = "isStrictSupersetOf"
    /\ ret' = [fwd |-> isStrictSupersetOf(call.This, call.Other),
               bwd |-> isStrictSupersetOf(call.Other, call.This)]
    /\ pc' = "done"
    /\ UNCHANGED <<call, loc, TypeBits>>

NextQual == CallIsStrictSupersetOf

SpecQual == InitQual /\ [][NextQual]_vars

Axis_MatchesOrOnlyThisSet(a, b, unset) == a = b \/ (a # unset /\ b = unset)

QualConst == [NoQuals EXCEPT !.cvr = {"const"}]

\* C1: isStrictSupersetOf(A,B) is true exactly when A # B, A's CVR bits include
\* B's, and on each of the GC, address-space and lifetime axes A's value equals
\* B's or A has the axis set while B has it unset; {const,volatile} is a strict
\* superset of {const} and not the other way round.
C1_StrictSupersetRule ==
    (pc = "done" /\ call.fn = "isStrictSupersetOf") =>
        /\ ret.fwd =
             ( /\ call.This # call.Other
               /\ call.Other.cvr \subseteq call.This.cvr
               /\ Axis_MatchesOrOnlyThisSet(call.This.gc, call.Other.gc, "GCNone")
               /\ Axis_MatchesOrOnlyThisSet(call.This.as, call.Other.as, 0)
               /\ Axis_MatchesOrOnlyThisSet(call.This.lt, call.Other.lt, "OCL_None") )
        /\ ((call.This = [NoQuals EXCEPT !.cvr = {"const", "volatile"}] /\ call.Other = QualConst)
              => (ret.fwd /\ ~ret.bwd))

C1_Witness ==
    /\ pc = "done"
    /\ call.This = [NoQuals EXCEPT !.cvr = {"const", "volatile"}]
    /\ call.Other = QualConst
    /\ ret.fwd
    /\ ~ret.bwd

\* C2: isStrictSupersetOf is a strict order: it implies inequality, it is
\* irreflexive, and it never holds in both directions.
C2_StrictOrder ==
    (pc = "done" /\ call.fn = "isStrictSupersetOf") =>
        /\ (ret.fwd => call.This # call.Other)
        /\ (call.This = call.Other => ~ret.fwd)
        /\ ~(ret.fwd /\ ret.bwd)

C2_Witness ==
    /\ pc = "done"
    /\ call.This.lt = "OCL_Strong"
    /\ call.Other.lt = "OCL_None"
    /\ call.This.cvr = call.Other.cvr
    /\ ret.fwd
    /\ ~ret.bwd

(***************************************************************************)
(* Type nodes and QualTypes.                                               *)
(***************************************************************************)
QualType(Ty, Quals) == [ty |-> Ty, quals |-> Quals]

NullTy == [cls |-> "Null"]

NullQualType == QualType(NullTy, NoQuals)

\* Qualifiers::addConsistentQualifiers: the union of the masks; the caller has
\* made sure the two agree on every axis both set.
addConsistentQualifiers(Q, qs) ==
    [cvr |-> Q.cvr \cup qs.cvr,
     gc  |-> IF hasObjCGCAttr(Q) THEN Q.gc ELSE qs.gc,
     as  |-> IF hasAddressSpace(Q) THEN Q.as ELSE qs.as,
     lt  |-> IF hasObjCLifetime(Q) THEN Q.lt ELSE qs.lt]

\* ASTContext::getQualifiedType(T, Qs): T with Qs added to its local qualifiers.
getQualifiedType(T, Qs) == QualType(T.ty, addConsistentQualifiers(Qs, T.quals))

BuiltinType(kind) == [cls |-> "Builtin", kind |-> kind]
TypedefType(UnderlyingType, NSObjectAttr) ==
    [cls |-> "Typedef", decl |-> [UnderlyingType |-> UnderlyingType,
                                  ObjCNSObjectAttr |-> NSObjectAttr]]
TypeOfExprType(TypeDependent, ExprType) ==
    [cls |-> "TypeOfExpr", TypeDependent |-> TypeDependent, ExprType |-> ExprType]
DecltypeType(InstantiationDependent, UnderlyingType) ==
    [cls |-> "Decltype", InstantiationDependent |-> InstantiationDependent,
     UnderlyingType |-> UnderlyingType]
AttributedType(AttrKind, EquivalentType) ==
    [cls |-> "Attributed", AttrKind |-> AttrKind, EquivalentType |-> EquivalentType]

DependentTy == QualType(BuiltinType("Dependent"), NoQuals)

\* auto, decltype(auto): deduced or not; one not deduced may be marked dependent.
AutoType(Deduced, DeducedType, Dependent) ==
    [cls |-> "Auto", Deduced |-> Deduced, DeducedType |-> DeducedType,
     Dependent |-> Dependent]

\* Mutant: a typedef desugars to itself.
TypedefType_desugar_Self(Ty) == QualType(Ty, NoQuals)

TypedefType_desugar(Ty) == Ty.decl.UnderlyingType

TypeOfExprType_isSugared(Ty) == ~Ty.TypeDependent

TypeOfExprType_desugar(Ty) ==
    IF TypeOfExprType_isSugared(Ty) THEN Ty.ExprType ELSE QualType(Ty, NoQuals)

DecltypeType_isSugared_Always(Ty) == TRUE

DecltypeType_isSugared(Ty) == ~Ty.InstantiationDependent

DecltypeType_desugar(Ty) ==
    IF DecltypeType_isSugared(Ty) THEN Ty.UnderlyingType ELSE QualType(Ty, NoQuals)

AttributedType_desugar(Ty) == Ty.EquivalentType

\* Class##Type::isSugared() of the node's class.
isSugared(Ty) ==
    CASE Ty.cls = "Typedef"    -> TRUE
      [] Ty.cls = "TypeOfExpr" -> TypeOfExprType_isSugared(Ty)
      [] Ty.cls = "Decltype"   -> DecltypeType_isSugared(Ty)
      [] Ty.cls = "Attributed" -> TRUE
      [] Ty.cls = "Auto"       -> Ty.Deduced
      [] OTHER                 -> FALSE

\* Class##Type::desugar() of the node's class.
desugar(Ty) ==
    CASE Ty.cls = "Typedef"    -> TypedefType_desugar(Ty)
      [] Ty.cls = "TypeOfExpr" -> TypeOfExprType_desugar(Ty)
      [] Ty.cls = "Decltype"   -> DecltypeType_desugar(Ty)
      [] Ty.cls = "Attributed" -> AttributedType_desugar(Ty)
      [] Ty.cls = "Auto" /\ Ty.Deduced -> Ty.DeducedType
      [] OTHER                 -> QualType(Ty, NoQuals)

getLocallyUnqualifiedSingleStepDesugaredType(Ty) ==
    IF ~isSugared(Ty) THEN QualType(Ty, NoQuals) ELSE desugar(Ty)

getSingleStepDesugaredTypeImpl_DropsQuals(type) ==
    getLocallyUnqualifiedSingleStepDesugaredType(type.ty)

getSingleStepDesugaredTypeImpl(type) ==
    getQualifiedType(getLocallyUnqualifiedSingleStepDesugaredType(type.ty), type.quals)

AttributedType_getImmediateNullability(Ty) ==
    CASE Ty.AttrKind = "attr_nonnull"          -> "NonNull"
      [] Ty.AttrKind = "attr_nullable"         -> "Nullable"
      [] Ty.AttrKind = "attr_null_unspecified" -> "Unspecified"
      [] OTHER                                 -> "None"

(***************************************************************************)
(* The sugar chains the desugaring traversals are run on: every chain of   *)
(* at most MaxSugarDepth sugar layers over a node that is not sugar, each  *)
(* layer's underlying type carrying one of LayerQuals.                     *)
(***************************************************************************)
MaxSugarDepth == 2

QualVolatile == [NoQuals EXCEPT !.cvr = {"volatile"}]
\* The qualifiers met at depth d of a chain: const on the even layers, volatile
\* on the odd ones, so that a chain collects both.
LayerQuals(d) == IF d % 2 = 0 THEN {NoQuals, QualConst} ELSE {NoQuals, QualVolatile}

IntTy == BuiltinType("Int")

DesugarLeaves ==
    {IntTy, TypeOfExprType(TRUE, DependentTy), DecltypeType(TRUE, DependentTy)}

WithQuals(Nodes, Quals) == {QualType(n, q) : n \in Nodes, q \in Quals}

SugarOver(QTs) ==
    {TypedefType(u, ns) : u \in QTs, ns \in BOOLEAN}
    \cup {TypeOfExprType(FALSE, u) : u \in QTs}
    \cup {DecltypeType(FALSE, u) : u \in QTs}
    \cup {AttributedType(k, u) : u \in QTs,
              k \in {"attr_nonnull", "attr_objc_inert_unsafe_unretained"}}

RECURSIVE DesugarNodes(_)
DesugarNodes(d) ==
    IF d = 0 THEN DesugarLeaves
    ELSE DesugarLeaves \cup SugarOver(WithQuals(DesugarNodes(d - 1), LayerQuals(d - 1)))

RECURSIVE SugarDepth(_)
SugarDepth(Ty) == IF isSugared(Ty) THEN 1 + SugarDepth(desugar(Ty).ty) ELSE 0

(***************************************************************************)
(* One iteration of each traversal's loop.  Each takes the loop's locals   *)
(* and yields whether the function returns, what it returns, and the       *)
(* locals of the next iteration.                                           *)
(***************************************************************************)
Returns(v) == [done |-> TRUE, ret |-> [v |-> v], loc |-> NoLoc]
Continues(l) == [done |-> FALSE, ret |-> [none |-> TRUE], loc |-> l]

\* Mutant: the loop returns at a non-sugared node with the qualifiers collected
\* before it, leaving out that node's own.
getSplitDesugaredType_Body_DropsLast(l) ==
    IF ~isSugared(l.Cur.ty)
    THEN Returns([Ty |-> l.Cur.ty, Quals |-> l.Qs])
    ELSE Continues([l EXCEPT !.Cur = desugar(l.Cur.ty),
                             !.Qs = addConsistentQualifiers(l.Qs, l.Cur.quals)])

\* Mutant: each iteration replaces the collected qualifiers by the current
\* type's own instead of merging them.
getSplitDesugaredType_Body_KeepsLastOnly(l) ==
    IF ~isSugared(l.Cur.ty)
    THEN Returns([Ty |-> l.Cur.ty, Quals |-> l.Cur.quals])
    ELSE Continues([l EXCEPT !.Cur = desugar(l.Cur.ty), !.Qs = l.Cur.quals])

getSplitDesugaredType_Body(l) ==
    LET Qs == addConsistentQualifiers(l.Qs, l.Cur.quals)   \* Qs.strip(Cur)
        CurTy == l.Cur.ty
    IN  IF ~isSugared(CurTy)
        THEN Returns([Ty |-> CurTy, Quals |-> Qs])
        ELSE Continues([l EXCEPT !.Cur = desugar(CurTy), !.Qs = Qs])

getSplitUnqualifiedTypeImpl_Body(l) ==
    IF ~isSugared(l.split.Ty)
    THEN Returns([Ty |-> l.lastTypeWithQuals, Quals |-> l.quals])
    ELSE LET next == desugar(l.split.Ty)
             split == [Ty |-> next.ty, Quals |-> next.quals]
         IN  IF split.Quals # NoQuals
             THEN Continues([split |-> split, lastTypeWithQuals |-> split.Ty,
                             quals |-> addConsistentQualifiers(l.quals, split.Quals)])
             ELSE Continues([l EXCEPT !.split = split])

getUnqualifiedDesugaredType_Body(l) ==
    IF ~isSugared(l.Cur) THEN Returns(l.Cur)
    ELSE Continues([Cur |-> desugar(l.Cur).ty])

\* Mutant: the search looks at the nodes below the queried one only.
getAsSugar_Body_SkipsStart(l) ==
    IF ~isSugared(l.Cur) THEN Returns(NullTy)
    ELSE IF desugar(l.Cur).ty.cls = l.T THEN Returns(desugar(l.Cur).ty)
    ELSE Continues([l EXCEPT !.Cur = desugar(l.Cur).ty])

getAsSugar_Body(l) ==
    IF l.Cur.cls = l.T THEN Returns(l.Cur)
    ELSE IF ~isSugared(l.Cur) THEN Returns(NullTy)
    ELSE Continues([l EXCEPT !.Cur = desugar(l.Cur).ty])

getNullability_Body(l) ==
    IF /\ l.type.ty.cls = "Attributed"
       /\ AttributedType_getImmediateNullability(l.type.ty) # "None"
    THEN Returns(AttributedType_getImmediateNullability(l.type.ty))
    ELSE LET desugared == getSingleStepDesugaredTypeImpl(l.type)
         IN  IF desugared.ty = l.type.ty THEN Returns("None")
             ELSE Continues([type |-> desugared])

isObjCNSObjectType_Body(l) ==
    IF l.cur.cls = "Typedef" THEN Returns(l.cur.decl.ObjCNSObjectAttr)
    ELSE LET next == getLocallyUnqualifiedSingleStepDesugaredType(l.cur)
         IN  IF next.ty = l.cur THEN Returns(FALSE)
             ELSE Continues([cur |-> next.ty])

isObjCInertUnsafeUnretainedType_Body(l) ==
    IF /\ l.cur.cls = "Attributed"
       /\ l.cur.AttrKind = "attr_objc_inert_unsafe_unretained"
    THEN Returns(TRUE)
    ELSE LET next == getLocallyUnqualifiedSingleStepDesugaredType(l.cur)
         IN  IF next.ty = l.cur THEN Returns(FALSE)
             ELSE Continues([cur |-> next.ty])

(***************************************************************************)
(* SpecDesugar: a caller runs one traversal on one type of the universe.   *)
(* getDesugaredType is called a second time on what it returned.           *)
(***************************************************************************)
QualTypeTraversals == {"getDesugaredType", "getSplitUnqualifiedTypeImpl"}
TypeTraversals == {"getUnqualifiedDesugaredType", "getNullability",
                   "isObjCNSObjectType", "isObjCInertUnsafeUnretainedType"}
SugarKinds == {"Typedef", "TemplateSpecialization", "Attributed"}

\* The local qualifiers of the types getSingleStepDesugaredTypeImpl is given:
\* none, fast ones, and each kind of extended qualifier.
SingleStepQuals ==
    {NoQuals, QualConst,
     [NoQuals EXCEPT !.cvr = {"volatile", "restrict"}, !.as = MaxAddressSpace],
     [NoQuals EXCEPT !.gc = "Weak"],
     [NoQuals EXCEPT !.cvr = {"const"}, !.lt = "OCL_Strong"]}

DesugarCalls(d) ==
    {[fn |-> f, T |-> t] :
        f \in QualTypeTraversals,
        t \in WithQuals(DesugarNodes(d), LayerQuals(d))}
    \cup {[fn |-> "getDesugaredType", T |-> QualType(n, [NoQuals EXCEPT !.gc = "Weak"])] :
        n \in DesugarNodes(d)}
    \cup {[fn |-> f, T |-> QualType(n, NoQuals)] :
        f \in TypeTraversals, n \in DesugarNodes(d)}
    \cup {[fn |-> "getAsSugar", T |-> QualType(n, NoQuals), kind |-> k] :
        n \in DesugarNodes(d), k \in SugarKinds}
    \cup {[fn |-> "getSingleStepDesugaredTypeImpl", T |-> t] :
        t \in WithQuals(DesugarNodes(d), SingleStepQuals)}

\* The locals each function sets up before its loop.
EntryLocals(c) ==
    CASE c.fn = "getDesugaredType" ->
           [Cur |-> c.T, Qs |-> NoQuals, results |-> <<>>]
      [] c.fn = "getSplitUnqualifiedTypeImpl" ->
           [split |-> [Ty |-> c.T.ty, Quals |-> c.T.quals],
            quals |-> c.T.quals, lastTypeWithQuals |-> c.T.ty]
      [] c.fn = "getUnqualifiedDesugaredType" -> [Cur |-> c.T.ty]
      [] c.fn = "getAsSugar" -> [Cur |-> c.T.ty, T |-> c.kind]
      [] c.fn = "getNullability" -> [type |-> QualType(c.T.ty, NoQuals)]
      [] c.fn = "isObjCNSObjectType" -> [cur |-> c.T.ty]
      [] c.fn = "isObjCInertUnsafeUnretainedType" -> [cur |-> c.T.ty]
      [] c.fn = "getSingleStepDesugaredTypeImpl" -> [type |-> c.T]

InitDesugar ==
    /\ pc = "loop"
    /\ call \in DesugarCalls(MaxSugarDepth)
    /\ loc = EntryLocals(call)
    /\ ret = [none |-> TRUE]
    /\ TypeBits = NoBits

LoopStep(fn, body) ==
    /\ pc = "loop"
    /\ call.fn = fn
    /\ pc' = IF body.done THEN "done" ELSE "loop"
    /\ ret' = body.ret
    /\ loc' = body.loc
    /\ UNCHANGED <<call, TypeBits>>

\* The loop of getSplitDesugaredType, run for getDesugaredType.
getSplitDesugaredType_Step ==
    /\ pc = "loop"
    /\ call.fn = "getDesugaredType"
    /\ LET body == getSplitDesugaredType_Body(loc)
       IN  /\ pc' = IF body.done THEN "split" ELSE "loop"
           /\ loc' = IF body.done
                     THEN [split |-> body.ret.v, results |-> loc.results]
                     ELSE body.loc
    /\ UNCHANGED <<call, ret, TypeBits>>

\* getDesugaredType returns Context.getQualifiedType(split.Ty, split.Quals); the
\* caller passes the first result to getDesugaredType again.
getDesugaredType_Return ==
    /\ pc = "split"
    /\ LET result == getQualifiedType(QualType(loc.split.Ty, NoQuals), loc.split.Quals)
       IN  IF loc.results = <<>>
           THEN /\ ret' = ret
                /\ loc' = [Cur |-> result, Qs |-> NoQuals, results |-> <<result>>]
                /\ pc' = "loop"
           ELSE /\ ret' = [first |-> loc.results[1], second |-> result]
                /\ loc' = NoLoc
                /\ pc' = "done"
    /\ UNCHANGED <<call, TypeBits>>

getSplitUnqualifiedTypeImpl_Step ==
    LoopStep("getSplitUnqualifiedTypeImpl", getSplitUnqualifiedTypeImpl_Body(loc))

getUnqualifiedDesugaredType_Step ==
    LoopStep("getUnqualifiedDesugaredType", getUnqualifiedDesugaredType_Body(loc))

getAsSugar_Step == LoopStep("getAsSugar", getAsSugar_Body(loc))

getNullability_Step == LoopStep("getNullability", getNullability_Body(loc))

isObjCNSObjectType_Step ==
    LoopStep("isObjCNSObjectType", isObjCNSObjectType_Body(loc))

isObjCInertUnsafeUnretainedType_Step ==
    LoopStep("isObjCInertUnsafeUnretainedType", isObjCInertUnsafeUnretainedType_Body(loc))

\* getSingleStepDesugaredTypeImpl has no loop: it returns at once.
getSingleStepDesugaredTypeImpl_Step ==
    LoopStep("getSingleStepDesugaredTypeImpl",
             Returns(getSingleStepDesugaredTypeImpl(loc.type)))

NextDesugar ==
    \/ getSplitDesugaredType_Step
    \/ getDesugaredType_Return
    \/ getSplitUnqualifiedTypeImpl_Step
    \/ getUnqualifiedDesugaredType_Step
    \/ getAsSugar_Step
    \/ getNullability_Step
    \/ isObjCNSObjectType_Step
    \/ isObjCInertUnsafeUnretainedType_Step
    \/ getSingleStepDesugaredTypeImpl_Step

SpecDesugar == InitDesugar /\ [][NextDesugar]_vars

\* The loops run to completion: no iteration is postponed for ever.
FairSpecDesugar == SpecDesugar /\ WF_vars(NextDesugar)

\* C3: full desugaring is idempotent: desugaring the result of getDesugaredType
\* gives the same node with the same qualifiers, and the node that full
\* desugaring and getUnqualifiedDesugaredType return is not sugared, so one
\* more single step leaves it in place.
C3_DesugarIdempotent ==
    /\ (pc = "done" /\ call.fn = "getDesugaredType") =>
          /\ ret.second = ret.first
          /\ ~isSugared(ret.first.ty)
          /\ getSingleStepDesugaredTypeImpl(ret.first) = ret.first
    /\ (pc = "done" /\ call.fn = "getUnqualifiedDesugaredType") =>
          /\ ~isSugared(ret.v)
          /\ getLocallyUnqualifiedSingleStepDesugaredType(ret.v) = QualType(ret.v, NoQuals)

C3_Witness ==
    /\ pc = "done"
    /\ call.fn = "getDesugaredType"
    /\ SugarDepth(call.T.ty) = 2
    /\ ret.first.quals = [NoQuals EXCEPT !.cvr = {"const", "volatile"}]
    /\ ret.second = ret.first

\* C4: every desugaring traversal terminates on a finite acyclic sugar chain.
C4_TraversalsTerminate == <>(pc = "done")

C4_Witness ==
    /\ pc = "done"
    /\ call.fn = "getNullability"
    /\ SugarDepth(call.T.ty) = 2
    /\ ret.v = "None"

(***************************************************************************)
(* Canonical types, and the type queries of Type.h the predicates use.     *)
(***************************************************************************)
ArrayClasses == {"ConstantArray", "IncompleteArray", "VariableArray", "DependentSizedArray"}

PointerType(PointeeType) == [cls |-> "Pointer", PointeeType |-> PointeeType]
ObjCObjectPointerType(name) == [cls |-> "ObjCObjectPointer", name |-> name]
TemplateTypeParmType(name) == [cls |-> "TemplateTypeParm", name |-> name]
EnumType(decl) == [cls |-> "Enum", decl |-> decl]
RecordType(decl) == [cls |-> "Record", decl |-> decl]
ArrayType(cls, ElementType) == [cls |-> cls, ElementType |-> ElementType]

\* The canonical type of a node.  The canonical type of an array of a qualified
\* element is the qualified array of the unqualified canonical element.
RECURSIVE CanonicalType(_)
CanonicalType(Ty) ==
    CASE isSugared(Ty) ->
           LET u == desugar(Ty) IN getQualifiedType(CanonicalType(u.ty), u.quals)
      [] Ty.cls \in ArrayClasses ->
           LET e == getQualifiedType(CanonicalType(Ty.ElementType.ty), Ty.ElementType.quals)
           IN  QualType(ArrayType(Ty.cls, QualType(e.ty, NoQuals)), e.quals)
      [] Ty.cls = "Pointer" ->
           LET p == Ty.PointeeType
           IN  QualType(PointerType(getQualifiedType(CanonicalType(p.ty), p.quals)), NoQuals)
      [] OTHER -> QualType(Ty, NoQuals)

getCanonicalType(T) == getQualifiedType(CanonicalType(T.ty), T.quals)

\* QualType::getQualifiers: the local qualifiers and those of the canonical type.
getQualifiers(T) == getCanonicalType(T).quals

hasNonTrivialObjCLifetime(T) == getQualifiers(T).lt \in {"OCL_Strong", "OCL_Weak"}

RECURSIVE isDependentType(_)
isDependentType(Ty) ==
    CASE Ty.cls = "TemplateTypeParm" -> TRUE
      [] Ty.cls = "TypeOfExpr" -> Ty.TypeDependent
      [] Ty.cls = "Decltype" -> Ty.InstantiationDependent
      [] Ty.cls = "Typedef" -> isDependentType(CanonicalType(Ty).ty)
      [] Ty.cls = "Attributed" -> isDependentType(CanonicalType(Ty).ty)
      [] Ty.cls \in ArrayClasses ->
           Ty.cls = "DependentSizedArray" \/ isDependentType(Ty.ElementType.ty)
      [] Ty.cls = "Pointer" -> isDependentType(Ty.PointeeType.ty)
      [] Ty.cls = "Builtin" -> Ty.kind = "Dependent"
      [] Ty.cls = "Auto" -> ~Ty.Deduced /\ Ty.Dependent
      [] Ty.cls = "Atomic" -> isDependentType(Ty.ValueType.ty)
      [] OTHER -> FALSE

isArrayType(Ty) == CanonicalType(Ty).ty.cls \in ArrayClasses
isIncompleteArrayType(Ty) == CanonicalType(Ty).ty.cls = "IncompleteArray"
isVectorType(Ty) == CanonicalType(Ty).ty.cls \in {"Vector", "ExtVector"}
isFunctionType(Ty) == CanonicalType(Ty).ty.cls \in {"FunctionProto", "FunctionNoProto"}
isPointerType(Ty) == CanonicalType(Ty).ty.cls = "Pointer"
isMemberPointerType(Ty) == CanonicalType(Ty).ty.cls = "MemberPointer"
isRecordType(Ty) == CanonicalType(Ty).ty.cls = "Record"
isVoidType(Ty) ==
    LET C == CanonicalType(Ty).ty IN C.cls = "Builtin" /\ C.kind = "Void"

\* getAs<RecordType>()->getDecl(), for a type whose canonical type is a record.
getRecordDecl(Ty) == CanonicalType(Ty).ty.decl

\* EnumDecl::isComplete
EnumDecl_isComplete(decl) == decl.CompleteDefinition \/ decl.Fixed

IntegerKinds == {"Bool", "Char", "Int"}
FloatingKinds == {"Float"}

isScalarType(Ty) ==
    LET C == CanonicalType(Ty).ty
    IN  CASE C.cls = "Builtin" -> C.kind \in IntegerKinds \cup FloatingKinds
          [] C.cls = "Enum" -> EnumDecl_isComplete(C.decl)
          [] OTHER -> C.cls \in {"Pointer", "BlockPointer", "MemberPointer",
                                 "ObjCObjectPointer", "Complex"}

isIntegralOrEnumerationType(Ty) ==
    LET C == CanonicalType(Ty).ty
    IN  CASE C.cls = "Builtin" -> C.kind \in IntegerKinds
          [] C.cls = "Enum" -> EnumDecl_isComplete(C.decl)
          [] OTHER -> FALSE

\* Type::getAsArrayTypeUnsafe and the loop of Type::getBaseElementTypeUnsafe.
RECURSIVE getUnqualifiedDesugaredType(_)
getUnqualifiedDesugaredType(Ty) ==
    LET b == getUnqualifiedDesugaredType_Body([Cur |-> Ty])
    IN  IF b.done THEN b.ret.v ELSE getUnqualifiedDesugaredType(b.loc.Cur)

RECURSIVE getBaseElementTypeUnsafe(_)
getBaseElementTypeUnsafe(Ty) ==
    IF isArrayType(Ty)
    THEN getBaseElementTypeUnsafe(getUnqualifiedDesugaredType(Ty).ElementType.ty)
    ELSE Ty

RECURSIVE getSplitDesugaredTypeFrom(_)
getSplitDesugaredTypeFrom(l) ==
    LET b == getSplitDesugaredType_Body(l)
    IN  IF b.done THEN b.ret.v ELSE getSplitDesugaredTypeFrom(b.loc)

getSplitDesugaredType(T) ==
    getSplitDesugaredTypeFrom([Cur |-> T, Qs |-> NoQuals, results |-> <<>>])

\* ASTContext::getBaseElementType: the element type under every array layer,
\* with the qualifiers met on the array layers added to it.
RECURSIVE getBaseElementTypeFrom(_, _)
getBaseElementTypeFrom(type, qs) ==
    LET split == getSplitDesugaredType(type)
    IN  IF split.Ty.cls \notin ArrayClasses THEN getQualifiedType(type, qs)
        ELSE getBaseElementTypeFrom(split.Ty.ElementType,
                                    addConsistentQualifiers(qs, split.Quals))

getBaseElementType(type) == getBaseElementTypeFrom(type, NoQuals)

(***************************************************************************)
(* The structural predicates.                                              *)
(***************************************************************************)
RECURSIVE isIncompleteType(_)
isIncompleteType(Ty) ==
    LET C == CanonicalType(Ty).ty
    IN  CASE C.cls = "Builtin" -> isVoidType(Ty)
          [] C.cls = "TypeVariable" -> TRUE
          [] C.cls = "Enum" -> IF C.decl.Fixed THEN FALSE ELSE ~C.decl.CompleteDefinition
          [] C.cls = "Record" -> ~C.decl.CompleteDefinition
          [] C.cls = "ConstantArray" -> isIncompleteType(C.ElementType.ty)
          [] C.cls = "IncompleteArray" -> TRUE
          [] OTHER -> FALSE

RECURSIVE isCXX98PODType(_)
isCXX98PODType(T) ==
    IF isIncompleteArrayType(T.ty) THEN isCXX98PODType(getBaseElementType(T))
    ELSE IF isIncompleteType(T.ty) THEN FALSE
    ELSE IF hasNonTrivialObjCLifetime(T) THEN FALSE
    ELSE LET C == CanonicalType(T.ty).ty
         IN  CASE C.cls \in {"VariableArray", "ConstantArray"} ->
                    isCXX98PODType(getBaseElementType(T))
               [] C.cls \in {"ObjCObjectPointer", "BlockPointer", "Builtin", "Complex",
                             "Pointer", "MemberPointer", "Vector", "ExtVector"} -> TRUE
               [] C.cls = "Enum" -> TRUE
               [] C.cls = "Record" -> IF C.decl.CXX THEN C.decl.POD ELSE TRUE
               [] OTHER -> FALSE

\* Mutant: the array case is missing, so an array is judged as a non-array.
isTrivialType_NoArrayCase(T) ==
    IF isIncompleteType(T.ty) THEN FALSE
    ELSE IF hasNonTrivialObjCLifetime(T) THEN FALSE
    ELSE LET C == CanonicalType(T.ty).ty
         IN  IF isDependentType(C) THEN FALSE
             ELSE IF isScalarType(C) \/ isVectorType(C) THEN TRUE
             ELSE IF C.cls = "Record"
                  THEN IF C.decl.CXX
                       THEN /\ C.decl.hasDefaultConstructor
                            /\ ~C.decl.hasNonTrivialDefaultConstructor
                            /\ C.decl.TriviallyCopyable
                       ELSE TRUE
                  ELSE FALSE

\* Mutant: a dependent type is classified like any other.
RECURSIVE isTrivialType_NoDependentCheck(_)
isTrivialType_NoDependentCheck(T) ==
    IF isArrayType(T.ty) THEN isTrivialType_NoDependentCheck(getBaseElementType(T))
    ELSE IF isIncompleteType(T.ty) THEN FALSE
    ELSE IF hasNonTrivialObjCLifetime(T) THEN FALSE
    ELSE LET C == CanonicalType(T.ty).ty
         IN  IF isScalarType(C) \/ isVectorType(C) THEN TRUE
             ELSE IF C.cls = "Record"
                  THEN IF C.decl.CXX
                       THEN /\ C.decl.hasDefaultConstructor
                            /\ ~C.decl.hasNonTrivialDefaultConstructor
                            /\ C.decl.TriviallyCopyable
                       ELSE TRUE
                  ELSE FALSE

RECURSIVE isTrivialType(_)
isTrivialType(T) ==
    IF isArrayType(T.ty) THEN isTrivialType(getBaseElementType(T))
    ELSE IF isIncompleteType(T.ty) THEN FALSE
    ELSE IF hasNonTrivialObjCLifetime(T) THEN FALSE
    ELSE LET C == CanonicalType(T.ty).ty
         IN  IF isDependentType(C) THEN FALSE
             ELSE IF isScalarType(C) \/ isVectorType(C) THEN TRUE
             ELSE IF C.cls = "Record"
                  THEN IF C.decl.CXX
                       THEN /\ C.decl.hasDefaultConstructor
                            /\ ~C.decl.hasNonTrivialDefaultConstructor
                            /\ C.decl.TriviallyCopyable
                       ELSE TRUE
                  ELSE FALSE

RECURSIVE isTriviallyCopyableType(_)
isTriviallyCopyableType(T) ==
    IF isArrayType(T.ty) THEN isTriviallyCopyableType(getBaseElementType(T))
    ELSE IF hasNonTrivialObjCLifetime(T) THEN FALSE
    ELSE LET C == getCanonicalType(T).ty
         IN  IF isDependentType(C) THEN FALSE
             ELSE IF isIncompleteType(C) THEN FALSE
             ELSE IF isScalarType(C) \/ isVectorType(C) THEN TRUE
             ELSE IF C.cls = "Record"
                  THEN IF C.decl.CXX /\ ~C.decl.TriviallyCopyable THEN FALSE ELSE TRUE
                  ELSE FALSE

\* Mutant: the type itself is classified, not its base element type.
isStandardLayoutType_NoBaseElement(Ty) ==
    IF isDependentType(Ty) THEN FALSE
    ELSE IF isIncompleteType(Ty) THEN FALSE
    ELSE IF isScalarType(Ty) \/ isVectorType(Ty) THEN TRUE
    ELSE IF isRecordType(Ty)
         THEN LET RD == getRecordDecl(Ty)
              IN  IF RD.CXX /\ ~RD.StandardLayout THEN FALSE ELSE TRUE
         ELSE FALSE

isStandardLayoutType(Ty) ==
    IF isDependentType(Ty) THEN FALSE
    ELSE LET BaseTy == getBaseElementTypeUnsafe(Ty)
         IN  IF isIncompleteType(BaseTy) THEN FALSE
             ELSE IF isScalarType(BaseTy) \/ isVectorType(BaseTy) THEN TRUE
             ELSE IF isRecordType(BaseTy)
                  THEN LET RD == getRecordDecl(BaseTy)
                       IN  IF RD.CXX /\ ~RD.StandardLayout THEN FALSE ELSE TRUE
                  ELSE FALSE

isCXX11PODType(T) ==
    IF isDependentType(T.ty) THEN FALSE
    ELSE IF hasNonTrivialObjCLifetime(T) THEN FALSE
    ELSE LET BaseTy == getBaseElementTypeUnsafe(T.ty)
         IN  IF isIncompleteType(BaseTy) THEN FALSE
             ELSE IF isScalarType(BaseTy) \/ isVectorType(BaseTy) THEN TRUE
             ELSE IF isRecordType(BaseTy)
                  THEN LET RD == getRecordDecl(BaseTy)
                       IN  IF RD.CXX /\ ~RD.Trivial THEN FALSE
                           ELSE IF RD.CXX /\ ~RD.StandardLayout THEN FALSE
                           ELSE TRUE
                  ELSE FALSE

\* Mutant: the element type is not asked whether it is complete.
RECURSIVE isLiteralType_NoIncompleteCheck(_, _)
isLiteralType_NoIncompleteCheck(Ty, CPlusPlus14) ==
    IF isDependentType(Ty) THEN FALSE
    ELSE IF CPlusPlus14 /\ isVoidType(Ty) THEN TRUE
    ELSE IF CanonicalType(Ty).ty.cls = "VariableArray" THEN FALSE
    ELSE LET BaseTy == getBaseElementTypeUnsafe(Ty)
             C == CanonicalType(BaseTy).ty
         IN  IF isScalarType(BaseTy) \/ isVectorType(BaseTy) \/ C.cls = "Complex" THEN TRUE
             ELSE IF C.cls \in {"LValueReference", "RValueReference"} THEN TRUE
             ELSE IF isRecordType(BaseTy)
                  THEN LET ClassDecl == getRecordDecl(BaseTy)
                       IN  IF ClassDecl.CXX THEN ClassDecl.Literal ELSE TRUE
             ELSE IF C.cls = "Atomic"
                  THEN isLiteralType_NoIncompleteCheck(C.ValueType.ty, CPlusPlus14)
             ELSE IF C.cls = "Auto" THEN TRUE
             ELSE FALSE

\* Mutant: a type not deduced yet is not taken to be literal.
RECURSIVE isLiteralType_NoPlaceholder(_, _)
isLiteralType_NoPlaceholder(Ty, CPlusPlus14) ==
    IF isDependentType(Ty) THEN FALSE
    ELSE IF CPlusPlus14 /\ isVoidType(Ty) THEN TRUE
    ELSE IF CanonicalType(Ty).ty.cls = "VariableArray" THEN FALSE
    ELSE LET BaseTy == getBaseElementTypeUnsafe(Ty)
             C == CanonicalType(BaseTy).ty
         IN  IF isIncompleteType(BaseTy) THEN FALSE
             ELSE IF isScalarType(BaseTy) \/ isVectorType(BaseTy) \/ C.cls = "Complex" THEN TRUE
             ELSE IF C.cls \in {"LValueReference", "RValueReference"} THEN TRUE
             ELSE IF isRecordType(BaseTy)
                  THEN LET ClassDecl == getRecordDecl(BaseTy)
                       IN  IF ClassDecl.CXX THEN ClassDecl.Literal ELSE TRUE
             ELSE IF C.cls = "Atomic"
                  THEN isLiteralType_NoPlaceholder(C.ValueType.ty, CPlusPlus14)
             ELSE FALSE

\* Type::isLiteralType, under the language option CPlusPlus14
RECURSIVE isLiteralType(_, _)
isLiteralType(Ty, CPlusPlus14) ==
    IF isDependentType(Ty) THEN FALSE
    ELSE IF CPlusPlus14 /\ isVoidType(Ty) THEN TRUE
    ELSE IF CanonicalType(Ty).ty.cls = "VariableArray" THEN FALSE
    ELSE LET BaseTy == getBaseElementTypeUnsafe(Ty)
             C == CanonicalType(BaseTy).ty
         IN  IF isIncompleteType(BaseTy) THEN FALSE
             ELSE IF isScalarType(BaseTy) \/ isVectorType(BaseTy) \/ C.cls = "Complex" THEN TRUE
             ELSE IF C.cls \in {"LValueReference", "RValueReference"} THEN TRUE
             ELSE IF isRecordType(BaseTy)
                  THEN LET ClassDecl == getRecordDecl(BaseTy)
                       IN  IF ClassDecl.CXX THEN ClassDecl.Literal ELSE TRUE
             ELSE IF C.cls = "Atomic" THEN isLiteralType(C.ValueType.ty, CPlusPlus14)
             ELSE IF C.cls = "Auto" THEN TRUE
             ELSE FALSE

\* Type::getAsCXXRecordDecl: the declaration of a class type, null otherwise.
getAsCXXRecordDecl(Ty) ==
    IF isRecordType(Ty) /\ getRecordDecl(Ty).CXX
    THEN [null |-> FALSE, decl |-> getRecordDecl(Ty)]
    ELSE [null |-> TRUE]

\* Mutant: the lifetime is read off the local qualifiers only.
isDestructedTypeImpl_LocalLifetime(type) ==
    LET record == getAsCXXRecordDecl(getBaseElementTypeUnsafe(type.ty)) IN
    IF type.quals.lt = "OCL_Strong" THEN "DK_objc_strong_lifetime"
    ELSE IF type.quals.lt = "OCL_Weak" THEN "DK_objc_weak_lifetime"
    ELSE IF ~record.null /\ record.decl.CompleteDefinition
                         /\ ~record.decl.hasTrivialDestructor
         THEN "DK_cxx_destructor"
         ELSE "DK_none"

isDestructedTypeImpl(type) ==
    CASE getQualifiers(type).lt = "OCL_Strong" -> "DK_objc_strong_lifetime"
      [] getQualifiers(type).lt = "OCL_Weak" -> "DK_objc_weak_lifetime"
      [] OTHER ->
           LET record == getAsCXXRecordDecl(getBaseElementTypeUnsafe(type.ty))
           IN  IF ~record.null /\ record.decl.CompleteDefinition
                               /\ ~record.decl.hasTrivialDestructor
               THEN "DK_cxx_destructor"
               ELSE "DK_none"

\* ASTContext::getTypeSizeInChars, on the target the layouts below are drawn for.
getTypeSizeInChars(T) ==
    LET C == CanonicalType(T.ty).ty
    IN  CASE C.cls = "Builtin" ->
               (CASE C.kind \in {"Bool", "Char"} -> 1
                  [] C.kind \in {"Int", "Float"} -> 4
                  [] OTHER -> 0)
          [] C.cls = "Enum" -> 4
          [] C.cls \in {"Pointer", "ObjCObjectPointer"} -> 8
          [] C.cls = "Record" -> C.decl.Size
          [] OTHER -> 0

\* Mutant: no struct counts as empty.
isStructEmpty_Never(Ty) == FALSE

isStructEmpty(Ty) ==
    LET RD == getRecordDecl(Ty.ty)
    IN  IF Len(RD.fields) # 0 THEN FALSE
        ELSE IF RD.CXX THEN RD.Empty
        ELSE TRUE

RECURSIVE hasUniqueObjectRepresentations(_)
RECURSIVE structHasUniqueObjectRepresentations(_)
RECURSIVE unionHasUniqueObjectRepresentations(_)

\* Mutant: the loop does not compare the field's size with the union's.
RECURSIVE unionFieldsLoop_IgnoresSize(_, _, _)
unionFieldsLoop_IgnoresSize(Union, i, UnionSize) ==
    IF i > Len(Union.fields) THEN TRUE
    ELSE IF ~hasUniqueObjectRepresentations(Union.fields[i].Type) THEN FALSE
    ELSE unionFieldsLoop_IgnoresSize(Union, i + 1, UnionSize)

\* The loop over Union->fields(), from field i on.
RECURSIVE unionFieldsLoop(_, _, _)
unionFieldsLoop(Union, i, UnionSize) ==
    IF i > Len(Union.fields) THEN TRUE
    ELSE LET Field == Union.fields[i]
         IN  IF ~hasUniqueObjectRepresentations(Field.Type) THEN FALSE
             ELSE IF getTypeSizeInChars(Field.Type) # UnionSize THEN FALSE
             ELSE unionFieldsLoop(Union, i + 1, UnionSize)

unionHasUniqueObjectRepresentations(T) ==
    unionFieldsLoop(getRecordDecl(T.ty), 1, getTypeSizeInChars(T))

\* The loop over ClassDecl->bases(), from base i on: whether it ran to the end,
\* and the BaseSize it summed.
RECURSIVE structBasesLoop(_, _, _)
structBasesLoop(ClassDecl, i, BaseSize) ==
    IF i > Len(ClassDecl.bases) THEN [ok |-> TRUE, BaseSize |-> BaseSize]
    ELSE LET Base == ClassDecl.bases[i]
         IN  IF Base.Virtual THEN [ok |-> FALSE, BaseSize |-> BaseSize]
             ELSE IF ~isStructEmpty(Base.Type)
                  THEN IF ~structHasUniqueObjectRepresentations(Base.Type)
                       THEN [ok |-> FALSE, BaseSize |-> BaseSize]
                       ELSE structBasesLoop(ClassDecl, i + 1,
                                            BaseSize + getTypeSizeInChars(Base.Type))
                  ELSE structBasesLoop(ClassDecl, i + 1, BaseSize)

\* The loop over RD->fields(), from field i on, and the tail padding check.
RECURSIVE structFieldsLoop(_, _, _, _)
structFieldsLoop(RD, i, CurOffset, StructSize) ==
    IF i > Len(RD.fields) THEN CurOffset = StructSize
    ELSE LET Field == RD.fields[i]
         IN  IF ~hasUniqueObjectRepresentations(Field.Type) THEN FALSE
             ELSE IF Field.Offset # CurOffset THEN FALSE
             ELSE structFieldsLoop(RD, i + 1,
                                   CurOffset + getTypeSizeInChars(Field.Type), StructSize)

structHasUniqueObjectRepresentations(T) ==
    LET RD == getRecordDecl(T.ty)
    IN  IF isStructEmpty(T) THEN FALSE
        ELSE LET b == IF RD.CXX THEN structBasesLoop(RD, 1, 0)
                      ELSE [ok |-> TRUE, BaseSize |-> 0]
                 StructSize == getTypeSizeInChars(T)
             IN  IF ~b.ok THEN FALSE
                 ELSE IF Len(RD.fields) = 0 THEN StructSize = b.BaseSize
                 ELSE IF b.BaseSize # RD.fields[1].Offset THEN FALSE
                 ELSE structFieldsLoop(RD, 1, RD.fields[1].Offset, StructSize)

hasUniqueObjectRepresentations(T) ==
    IF isArrayType(T.ty) THEN hasUniqueObjectRepresentations(getBaseElementType(T))
    ELSE IF ~isTriviallyCopyableType(T) THEN FALSE
    ELSE IF isFunctionType(T.ty) THEN FALSE
    ELSE IF isIntegralOrEnumerationType(T.ty) THEN TRUE
    ELSE IF isPointerType(T.ty) \/ isMemberPointerType(T.ty) THEN TRUE
    ELSE IF isRecordType(T.ty)
         THEN LET Record == getRecordDecl(T.ty)
              IN  IF Record.Lambda THEN FALSE
                  ELSE IF Record.Union THEN unionHasUniqueObjectRepresentations(T)
                  ELSE structHasUniqueObjectRepresentations(T)
    ELSE FALSE

(***************************************************************************)
(* Declarations, as the declaration storage reports them, and their layout *)
(* as the record layout builder reports it.                                *)
(***************************************************************************)
\* The end of the first n fields, field i beginning Gap bytes after field i-1.
RECURSIVE LayoutEnd(_, _, _)
LayoutEnd(items, n, start) ==
    IF n = 0 THEN start
    ELSE LayoutEnd(items, n - 1, start) + items[n].Gap + getTypeSizeInChars(items[n].Type)

RECURSIVE LargestField(_, _)
LargestField(items, n) ==
    IF n = 0 THEN 0
    ELSE LET m == LargestField(items, n - 1)
             sz == getTypeSizeInChars(items[n].Type)
         IN  IF sz > m THEN sz ELSE m

\* The bytes the non-empty bases take; an empty base takes none.
RECURSIVE NonEmptyBaseSize(_, _)
NonEmptyBaseSize(bases, n) ==
    IF n = 0 THEN 0
    ELSE NonEmptyBaseSize(bases, n - 1)
         + (IF bases[n].Type.ty.decl.Empty THEN 0 ELSE bases[n].Type.ty.decl.Size)

PlainFlags == [TC |-> TRUE, NTDC |-> FALSE, SL |-> TRUE, Lit |-> TRUE, TD |-> TRUE]

\* A complete record declaration of the given kind ("struct" and "union" are C
\* records, "class" and "closure" are CXXRecordDecls) with its layout.
RecordDecl(kind, items, bases, tail, emptySize, flags) ==
    LET isUnion == kind = "union"
        start == NonEmptyBaseSize(bases, Len(bases))
        end == IF isUnion THEN LargestField(items, Len(items))
               ELSE LayoutEnd(items, Len(items), start)
    IN  [CXX |-> kind \in {"class", "closure"},
         CompleteDefinition |-> TRUE,
         Union |-> isUnion,
         Lambda |-> kind = "closure",
         Empty |-> /\ Len(items) = 0
                   /\ \A i \in 1..Len(bases) :
                        ~bases[i].Virtual /\ bases[i].Type.ty.decl.Empty,
         TriviallyCopyable |-> flags.TC,
         hasDefaultConstructor |-> TRUE,
         hasNonTrivialDefaultConstructor |-> flags.NTDC,
         Trivial |-> flags.TC /\ ~flags.NTDC,
         StandardLayout |-> flags.SL,
         Literal |-> flags.Lit,
         hasTrivialDestructor |-> flags.TD,
         POD |-> flags.TC /\ ~flags.NTDC /\ flags.SL,
         fields |-> [i \in 1..Len(items) |->
                       [Type |-> items[i].Type,
                        Offset |-> IF isUnion THEN 0
                                   ELSE LayoutEnd(items, i - 1, start) + items[i].Gap]],
         bases |-> bases,
         Size |-> IF end = 0 THEN emptySize ELSE end + tail]

\* A declaration that has been declared but not defined.
ForwardDecl(cxx) ==
    [RecordDecl(IF cxx THEN "class" ELSE "struct", <<>>, <<>>, 0, 0, PlainFlags)
       EXCEPT !.CompleteDefinition = FALSE]

EnumDecl(complete, fixed) == [CompleteDefinition |-> complete, Fixed |-> fixed]

(***************************************************************************)
(* The array law of the structural predicates: each predicate is called on *)
(* an array type and on the element type the array was built over.         *)
(***************************************************************************)
MaxArrayDepth == 2

\* A field of type Ty laid out gap bytes after what precedes it.
Item(Ty, gap) == [Type |-> QualType(Ty, NoQuals), Gap |-> gap]

\* The qualifiers that are an ownership qualifier alone.
LifetimeQuals(lt) == [NoQuals EXCEPT !.lt = lt]

\* The element types: not arrays; complete or not, qualified or not.
ElementTypes ==
    LET U(Ty) == QualType(Ty, NoQuals)
        Char == BuiltinType("Char")
        RecordElementDecls ==
            {RecordDecl("struct", <<Item(IntTy, 0)>>, <<>>, 0, 0, PlainFlags),
             RecordDecl("struct", <<Item(Char, 0), Item(IntTy, 3)>>, <<>>, 0, 0, PlainFlags),
             RecordDecl("struct", <<>>, <<>>, 0, 0, PlainFlags),
             RecordDecl("union", <<Item(IntTy, 0), Item(Char, 0)>>, <<>>, 0, 0, PlainFlags),
             RecordDecl("closure", <<Item(IntTy, 0)>>, <<>>, 0, 1, PlainFlags),
             ForwardDecl(FALSE), ForwardDecl(TRUE)}
            \cup {RecordDecl("class", <<Item(IntTy, 0)>>, <<>>, 0, 1, f) :
                    f \in [TC : BOOLEAN, NTDC : BOOLEAN, SL : BOOLEAN, Lit : BOOLEAN,
                           TD : {TRUE}]}
            \cup {RecordDecl("class", <<Item(IntTy, 0)>>, <<>>, 0, 1,
                              [PlainFlags EXCEPT !.TC = FALSE, !.TD = FALSE]),
                  [ForwardDecl(TRUE) EXCEPT !.hasTrivialDestructor = FALSE]}
    IN  {U(Ty) : Ty \in {BuiltinType("Void"), IntTy, BuiltinType("Float"),
                         PointerType(U(IntTy)), TemplateTypeParmType("T"),
                         PointerType(U(TemplateTypeParmType("T"))),
                         TypedefType(QualType(IntTy, QualConst), FALSE),
                         [cls |-> "LValueReference", PointeeType |-> U(IntTy)],
                         [cls |-> "Atomic", ValueType |-> U(IntTy)],
                         [cls |-> "Atomic", ValueType |-> U(BuiltinType("Void"))],
                         AutoType(FALSE, NullQualType, FALSE),
                         AutoType(FALSE, NullQualType, TRUE),
                         AutoType(TRUE, U(IntTy), FALSE)}}
        \cup {QualType(IntTy, QualConst)}
        \cup {QualType(ObjCObjectPointerType("id"), LifetimeQuals(lt)) :
                lt \in ObjCLifetimes}
        \cup {U(EnumType(EnumDecl(c, f))) : c \in BOOLEAN, f \in BOOLEAN}
        \cup {U(RecordType(d)) : d \in RecordElementDecls}

\* The array classes of the layers, outermost first; only the outermost bound
\* of an array may be missing.
ArrayShapes(depth) ==
    UNION {{s \in [1..n -> ArrayClasses] :
              \A i \in 2..n : s[i] # "IncompleteArray"} : n \in 1..depth}

RECURSIVE ArrayOver(_, _)
ArrayOver(shape, T) ==
    IF Len(shape) = 0 THEN T
    ELSE QualType(ArrayType(shape[1], ArrayOver(Tail(shape), T)), NoQuals)

\* How the array type is written: directly, or through a typedef of the array
\* type, which may itself be const-qualified.
Spelled(how, A) ==
    CASE how = "direct" -> A
      [] how = "typedef" -> QualType(TypedefType(A, FALSE), NoQuals)
      [] how = "const typedef" -> QualType(TypedefType(A, FALSE), QualConst)

QualTypePredicates == {"isTrivialType", "isTriviallyCopyableType",
                       "hasUniqueObjectRepresentations"}
PODPredicates == {"isCXX98PODType", "isCXX11PODType", "isStandardLayoutType"}

InitPred ==
    /\ pc = "call"
    /\ call \in {[fn |-> f[1], CPlusPlus14 |-> f[2], T |-> T, shape |-> s,
                  A |-> Spelled(h, ArrayOver(s, T))] :
                   f \in ((QualTypePredicates \cup PODPredicates
                             \cup {"isDestructedTypeImpl"}) \X {FALSE})
                          \cup ({"isLiteralType"} \X BOOLEAN),
                   T \in ElementTypes,
                   s \in ArrayShapes(MaxArrayDepth), h \in {"direct", "typedef", "const typedef"}}
    /\ ret = [none |-> TRUE]
    /\ loc = NoLoc
    /\ TypeBits = NoBits

\* The predicate is asked of the array type and of its element type.
Answer(fn, array, element) ==
    /\ pc = "call"
    /\ call.fn = fn
    /\ ret' = [array |-> array, element |-> element]
    /\ pc' = "done"
    /\ UNCHANGED <<call, loc, TypeBits>>

Call_isTrivialType ==
    Answer("isTrivialType", isTrivialType(call.A), isTrivialType(call.T))
Call_isTriviallyCopyableType ==
    Answer("isTriviallyCopyableType", isTriviallyCopyableType(call.A),
           isTriviallyCopyableType(call.T))
Call_hasUniqueObjectRepresentations ==
    Answer("hasUniqueObjectRepresentations", hasUniqueObjectRepresentations(call.A),
           hasUniqueObjectRepresentations(call.T))
Call_isCXX98PODType ==
    Answer("isCXX98PODType", isCXX98PODType(call.A), isCXX98PODType(call.T))
Call_isCXX11PODType ==
    Answer("isCXX11PODType", isCXX11PODType(call.A), isCXX11PODType(call.T))
Call_isStandardLayoutType ==
    Answer("isStandardLayoutType", isStandardLayoutType(call.A.ty),
           isStandardLayoutType(call.T.ty))

Call_isLiteralType ==
    Answer("isLiteralType", isLiteralType(call.A.ty, call.CPlusPlus14),
           isLiteralType(call.T.ty, call.CPlusPlus14))

Call_isDestructedTypeImpl ==
    Answer("isDestructedTypeImpl", isDestructedTypeImpl(call.A), isDestructedTypeImpl(call.T))

NextPred ==
    \/ Call_isTrivialType
    \/ Call_isTriviallyCopyableType
    \/ Call_hasUniqueObjectRepresentations
    \/ Call_isCXX98PODType
    \/ Call_isCXX11PODType
    \/ Call_isStandardLayoutType
    \/ Call_isLiteralType
    \/ Call_isDestructedTypeImpl

SpecPred == InitPred /\ [][NextPred]_vars

\* C5: isTrivialType, isTriviallyCopyableType and hasUniqueObjectRepresentations
\* give an array type, of any shape and spelling, the answer they give its base
\* element type, whether that type is complete or not, qualified or not.
C5_ArrayLawQualTypePredicates ==
    (pc = "done" /\ call.fn \in QualTypePredicates) => ret.array = ret.element

\* An array of arrays of a trivially copyable class with a non-trivial default
\* constructor: trivially copyable, and so is the element; and an incomplete
\* element type has been asked about too.
C5_Witness ==
    /\ pc = "done"
    /\ call.fn = "isTriviallyCopyableType"
    /\ Len(call.shape) = MaxArrayDepth
    /\ call.T.ty.cls = "Record"
    /\ call.T.ty.decl.hasNonTrivialDefaultConstructor
    /\ ret.array /\ ret.element

\* C6 as stated: isCXX98PODType, isCXX11PODType and isStandardLayoutType give
\* every array type the answer they give its element type.
C6_ArrayLawPODStandardLayout ==
    (pc = "done" /\ call.fn \in PODPredicates) => ret.array = ret.element

\* C6, amended: isCXX98PODType, isCXX11PODType and isStandardLayoutType give an
\* array type with no dependent-sized layer the answer they give its element
\* type, an element type with an ownership qualifier included.
C6_ArrayLawExceptDependentSized ==
    (/\ pc = "done"
     /\ call.fn \in PODPredicates
     /\ \A i \in 1..Len(call.shape) : call.shape[i] # "DependentSizedArray")
        => ret.array = ret.element

\* An array of __strong id is not a POD in either era, as __strong id is not;
\* here the C++98 predicate has answered for a constant array of it.
C6_Witness ==
    /\ pc = "done"
    /\ call.fn = "isCXX98PODType"
    /\ call.T = QualType(ObjCObjectPointerType("id"), LifetimeQuals("OCL_Strong"))
    /\ call.shape = <<"ConstantArray">>
    /\ ~ret.array /\ ~ret.element

(***************************************************************************)
(* hasUniqueObjectRepresentations on a record whose fields, bases and      *)
(* layout are drawn.                                                       *)
(***************************************************************************)
MaxFields == 2

\* The record declarations drawn, with at most `most` fields.  Fields are
\* char, int or float, each with or without three bytes of padding before it.
\* Bases are an empty class, a class of one int, a class of one char with tail
\* padding, and a closure type capturing one int.  Only a class has bases; a
\* trivially copyable class has trivially copyable bases, and a closure type
\* or a C record is never declared otherwise.
DrawnRecordDecls(most) ==
    LET EmptyBase == RecordDecl("class", <<>>, <<>>, 0, 1, PlainFlags)
        UniqueBase == RecordDecl("class", <<Item(IntTy, 0)>>, <<>>, 0, 1, PlainFlags)
        PaddedBase ==
            RecordDecl("class", <<Item(BuiltinType("Char"), 0)>>, <<>>, 3, 1, PlainFlags)
        ClosureBase == RecordDecl("closure", <<Item(IntTy, 0)>>, <<>>, 0, 1, PlainFlags)
        Base(decl, virtual) ==
            [Type |-> QualType(RecordType(decl), NoQuals), Virtual |-> virtual]
        BaseLists ==
            {<<>>}
            \cup {<<Base(b, v)>> :
                    b \in {EmptyBase, UniqueBase, PaddedBase, ClosureBase}, v \in BOOLEAN}
            \cup {<<Base(a, FALSE), Base(b, FALSE)>> :
                    a \in {EmptyBase, UniqueBase}, b \in {UniqueBase, ClosureBase}}
        FieldTypes == {BuiltinType("Char"), IntTy, BuiltinType("Float")}
        FieldLists ==
            UNION {[1..n -> {Item(Ty, gap) : Ty \in FieldTypes, gap \in {0, 3}}] :
                     n \in 0..most}
    IN  {RecordDecl(k, items, <<>>, tail, emptySize, PlainFlags) :
            k \in {"struct", "union", "closure"}, items \in FieldLists,
            tail \in {0, 3}, emptySize \in {0, 1}}
        \cup
        {RecordDecl("class", items, bases, tail, emptySize,
                    [PlainFlags EXCEPT !.TC = tc]) :
            items \in FieldLists, bases \in BaseLists,
            tail \in {0, 3}, emptySize \in {0, 1}, tc \in BOOLEAN}

InitRecord ==
    /\ pc = "call"
    /\ call \in {[fn |-> "hasUniqueObjectRepresentations",
                  T |-> QualType(RecordType(d), q)] :
                   d \in DrawnRecordDecls(MaxFields), q \in {NoQuals, QualConst}}
    /\ ret = [none |-> TRUE]
    /\ loc = NoLoc
    /\ TypeBits = NoBits

Call_hasUniqueObjectRepresentationsOfRecord ==
    /\ pc = "call"
    /\ ret' = [v |-> hasUniqueObjectRepresentations(call.T)]
    /\ pc' = "done"
    /\ UNCHANGED <<call, loc, TypeBits>>

NextRecord == Call_hasUniqueObjectRepresentationsOfRecord

SpecRecord == InitRecord /\ [][NextRecord]_vars

\* C7: a struct or class with no fields that, when it is a C++ class, its
\* declaration reports empty, has no unique object representations, whatever
\* its size and although it is trivially copyable.
C7_EmptyStructNotUnique ==
    LET RD == call.T.ty.decl
    IN  (/\ pc = "done"
         /\ ~RD.Union
         /\ Len(RD.fields) = 0
         /\ RD.CXX => RD.Empty)
        => ret.v = FALSE

\* An empty C struct of size 0, which is trivially copyable and whose size is
\* the summed size of its (no) bases: the answer is still false.
C7_Witness ==
    LET RD == call.T.ty.decl
    IN  /\ pc = "done"
        /\ ~RD.CXX /\ ~RD.Union
        /\ Len(RD.fields) = 0
        /\ RD.Size = 0
        /\ isTriviallyCopyableType(call.T)
        /\ ret.v = FALSE

\* C8: for a trivially copyable, non-lambda, non-empty, non-union struct or
\* class, hasUniqueObjectRepresentations is true iff no base is virtual, every
\* non-empty base and every field has unique object representations, the first
\* field starts at the summed size of the non-empty bases, each field starts
\* where the previous one ends, and the end of the last field (the summed base
\* size when there are no fields) is the struct size.
C8_StructUniqueIff ==
    LET RD == call.T.ty.decl
        n == Len(RD.fields)
        NonEmpty == {i \in 1..Len(RD.bases) : ~RD.bases[i].Type.ty.decl.Empty}
        BaseSize == NonEmptyBaseSize(RD.bases, Len(RD.bases))
        EndOf(i) == RD.fields[i].Offset + getTypeSizeInChars(RD.fields[i].Type)
    IN  (/\ pc = "done"
         /\ ~RD.CXX \/ RD.TriviallyCopyable
         /\ ~RD.Lambda
         /\ ~RD.Union
         /\ ~(n = 0 /\ (RD.CXX => RD.Empty)))
        => ret.v = (/\ \A i \in 1..Len(RD.bases) : ~RD.bases[i].Virtual
                    /\ \A i \in NonEmpty :
                         hasUniqueObjectRepresentations(RD.bases[i].Type)
                    /\ \A i \in 1..n : hasUniqueObjectRepresentations(RD.fields[i].Type)
                    /\ n > 0 => RD.fields[1].Offset = BaseSize
                    /\ \A i \in 2..n : RD.fields[i].Offset = EndOf(i - 1)
                    /\ (IF n = 0 THEN BaseSize ELSE EndOf(n)) = RD.Size)

\* A class with no fields whose only base is a closure type capturing one int,
\* laid out without padding: the answer is true although the base, asked on its
\* own, has no unique object representations.
C8_Witness ==
    LET RD == call.T.ty.decl
    IN  /\ pc = "done"
        /\ RD.CXX /\ ~RD.Lambda /\ RD.TriviallyCopyable
        /\ Len(RD.fields) = 0
        /\ Len(RD.bases) = 1
        /\ RD.bases[1].Type.ty.decl.Lambda
        /\ ~hasUniqueObjectRepresentations(RD.bases[1].Type)
        /\ ret.v = TRUE

(***************************************************************************)
(* Linkage: CachedProperties and their merge.                              *)
(***************************************************************************)
\* The linkages, least first.
Linkages == <<"NoLinkage", "InternalLinkage", "UniqueExternalLinkage", "ExternalLinkage">>
LinkageSet == {Linkages[i] : i \in 1..Len(Linkages)}
LinkageRank(L) == CHOOSE i \in 1..Len(Linkages) : Linkages[i] = L

minLinkage(L1, L2) == IF LinkageRank(L1) < LinkageRank(L2) THEN L1 ELSE L2

CachedProperties(L, local) == [L |-> L, local |-> local]

\* Mutant: the merged flag is that of the left operand.
merge_LeftFlag(L, R) == CachedProperties(minLinkage(L.L, R.L), L.local)

merge(L, R) ==
    LET MergedLinkage == minLinkage(L.L, R.L)
    IN  CachedProperties(MergedLinkage, L.local \/ R.local)

InitMerge ==
    /\ pc = "call"
    /\ LET All == [L : LinkageSet, local : BOOLEAN]
       IN  call \in [fn : {"merge"}, a : All, b : All, c : All]
    /\ ret = [none |-> TRUE]
    /\ loc = NoLoc
    /\ TypeBits = NoBits

\* The merges the three laws compare.
Call_merge ==
    /\ pc = "call"
    /\ ret' = [ab |-> merge(call.a, call.b),
               ba |-> merge(call.b, call.a),
               ab_c |-> merge(merge(call.a, call.b), call.c),
               a_bc |-> merge(call.a, merge(call.b, call.c)),
               aa |-> merge(call.a, call.a)]
    /\ pc' = "done"
    /\ UNCHANGED <<call, loc, TypeBits>>

NextMerge == Call_merge

SpecMerge == InitMerge /\ [][NextMerge]_vars

\* C9: merge is commutative, associative and idempotent; its linkage is the
\* lesser of the two in the order none < internal < unique-external < external
\* and its flag is the OR of the two.
C9_MergeLaws ==
    pc = "done" =>
        /\ ret.ab = ret.ba
        /\ ret.ab_c = ret.a_bc
        /\ ret.aa = call.a
        /\ ret.ab.L \in {call.a.L, call.b.L}
        /\ LinkageRank(ret.ab.L) <= LinkageRank(call.a.L)
        /\ LinkageRank(ret.ab.L) <= LinkageRank(call.b.L)
        /\ ret.ab.local = (call.a.local \/ call.b.local)

\* Unique-external without the flag merged with internal with the flag, in
\* either order, is internal with the flag.
C9_Witness ==
    /\ pc = "done"
    /\ call.a = CachedProperties("UniqueExternalLinkage", FALSE)
    /\ call.b = CachedProperties("InternalLinkage", TRUE)
    /\ ret.ab = CachedProperties("InternalLinkage", TRUE)
    /\ ret.ba = ret.ab

(***************************************************************************)
(* The type-property cache: TypeBits of every node, filled by ensure.      *)
(***************************************************************************)
\* What a tag declaration reports to computeCachedProperties.
TagDecl(name, L, inFunctionOrMethod, hasNameForLinkage) ==
    [name |-> name, LinkageInternal |-> L,
     InFunctionOrMethod |-> inFunctionOrMethod,
     HasNameForLinkage |-> hasNameForLinkage]

\* Type::isCanonicalUnqualified
isCanonicalUnqualified(T) == CanonicalType(T) = QualType(T, NoQuals)

\* A node as its constructor leaves it.
InitialTypeBits ==
    [CacheValid |-> FALSE, CachedLinkage |-> "NoLinkage", CachedLocalOrUnnamed |-> FALSE,
     \* history: how often computeCachedProperties has run on the node
     ComputeRuns |-> 0]

RECURSIVE ensure(_, _)
RECURSIVE computeCachedProperties(_, _)

\* Cache::get: the properties read back from the node after ensure, and the
\* TypeBits ensure leaves.
Cache_get(T, bits) ==
    LET b == ensure(T, bits)
    IN  [props |-> CachedProperties(b[T].CachedLinkage, b[T].CachedLocalOrUnnamed),
         bits |-> b]

\* Mutant: the loop over the parameter types merges nothing.
FunctionProto_paramLoop_Skips(FPT, i, result, bits) == [props |-> result, bits |-> bits]

\* The loop over FPT->param_types(), from parameter i on.
RECURSIVE FunctionProto_paramLoop(_, _, _, _)
FunctionProto_paramLoop(FPT, i, result, bits) ==
    IF i > Len(FPT.param_types) THEN [props |-> result, bits |-> bits]
    ELSE LET ai == Cache_get(FPT.param_types[i].ty, bits)
         IN  FunctionProto_paramLoop(FPT, i + 1, merge(result, ai.props), ai.bits)

computeCachedProperties(T, bits) ==
    CASE T.cls \in {"TemplateTypeParm", "DependentSizedArray", "TypeOfExpr", "Decltype"} ->
           [props |-> CachedProperties("ExternalLinkage", FALSE), bits |-> bits]
      [] T.cls \in {"Auto", "DeducedTemplateSpecialization"} ->
           [props |-> CachedProperties("ExternalLinkage", FALSE), bits |-> bits]
      [] T.cls = "Builtin" ->
           [props |-> CachedProperties("ExternalLinkage", FALSE), bits |-> bits]
      [] T.cls \in {"Record", "Enum"} ->
           LET Tag == T.decl
               L == Tag.LinkageInternal
               IsLocalOrUnnamed == Tag.InFunctionOrMethod \/ ~Tag.HasNameForLinkage
           IN  [props |-> CachedProperties(L, IsLocalOrUnnamed), bits |-> bits]
      [] T.cls = "Complex" -> Cache_get(T.ElementType.ty, bits)
      [] T.cls = "Pointer" -> Cache_get(T.PointeeType.ty, bits)
      [] T.cls = "BlockPointer" -> Cache_get(T.PointeeType.ty, bits)
      [] T.cls \in {"LValueReference", "RValueReference"} ->
           Cache_get(T.PointeeType.ty, bits)
      [] T.cls = "MemberPointer" ->
           \* merge(get(class), get(pointee)): which argument is evaluated first
           \* is the compiler's choice; the cache is the same either way
           LET c == Cache_get(T.Class, bits)
               p == Cache_get(T.PointeeType.ty, c.bits)
           IN  [props |-> merge(c.props, p.props), bits |-> p.bits]
      [] T.cls \in {"ConstantArray", "IncompleteArray", "VariableArray"} ->
           Cache_get(T.ElementType.ty, bits)
      [] T.cls \in {"Vector", "ExtVector"} -> Cache_get(T.ElementType.ty, bits)
      [] T.cls = "FunctionNoProto" -> Cache_get(T.ReturnType.ty, bits)
      [] T.cls = "FunctionProto" ->
           LET result == Cache_get(T.ReturnType.ty, bits)
           IN  FunctionProto_paramLoop(T, 1, result.props, result.bits)
      [] T.cls = "ObjCInterface" ->
           [props |-> CachedProperties(T.decl.LinkageInternal, FALSE), bits |-> bits]
      [] T.cls = "ObjCObject" -> Cache_get(T.BaseType.ty, bits)
      [] T.cls = "ObjCObjectPointer" -> Cache_get(T.PointeeType.ty, bits)
      [] T.cls = "Atomic" -> Cache_get(T.ValueType.ty, bits)
      [] T.cls = "Pipe" -> Cache_get(T.ElementType.ty, bits)
      [] T.cls = "TypeVariable" ->
           [props |-> CachedProperties("ExternalLinkage", FALSE), bits |-> bits]

\* Mutant: a non-canonical node is marked valid without the copy.
ensure_NoCopy(T, bits) ==
    IF bits[T].CacheValid THEN bits
    ELSE IF ~isCanonicalUnqualified(T)
         THEN LET CT == CanonicalType(T).ty
                  b == ensure(CT, bits)
              IN  [b EXCEPT ![T].CacheValid = TRUE]
         ELSE LET Result == computeCachedProperties(T, bits)
              IN  [Result.bits EXCEPT ![T].CacheValid = TRUE,
                                      ![T].CachedLinkage = Result.props.L,
                                      ![T].CachedLocalOrUnnamed = Result.props.local,
                                      ![T].ComputeRuns = @ + 1]

\* Mutant: the valid bit is not looked at.
ensure_Recomputes(T, bits) ==
    IF ~isCanonicalUnqualified(T)
    THEN LET CT == CanonicalType(T).ty
             b == ensure(CT, bits)
         IN  [b EXCEPT ![T].CacheValid = TRUE,
                       ![T].CachedLinkage = b[CT].CachedLinkage,
                       ![T].CachedLocalOrUnnamed = b[CT].CachedLocalOrUnnamed]
    ELSE LET Result == computeCachedProperties(T, bits)
         IN  [Result.bits EXCEPT ![T].CacheValid = TRUE,
                                 ![T].CachedLinkage = Result.props.L,
                                 ![T].CachedLocalOrUnnamed = Result.props.local,
                                 ![T].ComputeRuns = @ + 1]

ensure(T, bits) ==
    IF bits[T].CacheValid THEN bits
    ELSE IF ~isCanonicalUnqualified(T)
         THEN LET CT == CanonicalType(T).ty
                  b == ensure(CT, bits)
              IN  [b EXCEPT ![T].CacheValid = TRUE,
                            ![T].CachedLinkage = b[CT].CachedLinkage,
                            ![T].CachedLocalOrUnnamed = b[CT].CachedLocalOrUnnamed]
         ELSE LET Result == computeCachedProperties(T, bits)
              IN  [Result.bits EXCEPT ![T].CacheValid = TRUE,
                                      ![T].CachedLinkage = Result.props.L,
                                      ![T].CachedLocalOrUnnamed = Result.props.local,
                                      ![T].ComputeRuns = @ + 1]

\* LinkageComputer::computeTypeLinkageInfo: the linkage recomputed from the
\* structure, with no cache.
RECURSIVE computeTypeLinkageInfo(_)
computeTypeLinkageInfo(T) ==
    LET Over(kids) == \* LV of the first child, the others merged into it
            LET RECURSIVE Merged(_, _)
                Merged(i, LV) == IF i > Len(kids) THEN LV
                                 ELSE Merged(i + 1,
                                        minLinkage(LV, computeTypeLinkageInfo(kids[i])))
            IN  Merged(2, computeTypeLinkageInfo(kids[1]))
    IN  CASE T.cls \in {"TemplateTypeParm", "DependentSizedArray", "TypeOfExpr",
                        "Decltype", "Builtin", "Auto", "DeducedTemplateSpecialization",
                        "TypeVariable"} -> "ExternalLinkage"
          [] T.cls \in {"Record", "Enum", "ObjCInterface"} -> T.decl.LinkageInternal
          [] T.cls \in {"Complex", "ConstantArray", "IncompleteArray", "VariableArray",
                        "Vector", "ExtVector", "Pipe"} -> Over(<<T.ElementType.ty>>)
          [] T.cls \in {"Pointer", "BlockPointer", "LValueReference", "RValueReference",
                        "ObjCObjectPointer"} -> Over(<<T.PointeeType.ty>>)
          [] T.cls = "MemberPointer" -> Over(<<T.Class, T.PointeeType.ty>>)
          [] T.cls = "FunctionNoProto" -> Over(<<T.ReturnType.ty>>)
          [] T.cls = "FunctionProto" ->
               Over(<<T.ReturnType.ty>>
                    \o [i \in 1..Len(T.param_types) |-> T.param_types[i].ty])
          [] T.cls = "ObjCObject" -> Over(<<T.BaseType.ty>>)
          [] T.cls = "Atomic" -> Over(<<T.ValueType.ty>>)

\* Type::isLinkageValid
isLinkageValid(T, bits) ==
    IF ~bits[T].CacheValid THEN TRUE
    ELSE computeTypeLinkageInfo(CanonicalType(T).ty) = bits[T].CachedLinkage

\* The immediate structural children computeCachedProperties asks the cache
\* about, by type class.
StructuralChildren(T) ==
    CASE T.cls \in {"Pointer", "BlockPointer", "LValueReference", "RValueReference"} ->
           {T.PointeeType.ty}
      [] T.cls = "MemberPointer" -> {T.Class, T.PointeeType.ty}
      [] T.cls \in {"ConstantArray", "IncompleteArray", "VariableArray",
                    "Vector", "ExtVector", "Complex", "Pipe"} -> {T.ElementType.ty}
      [] T.cls = "Atomic" -> {T.ValueType.ty}
      [] T.cls = "FunctionNoProto" -> {T.ReturnType.ty}
      [] T.cls = "FunctionProto" ->
           {T.ReturnType.ty} \cup {T.param_types[i].ty : i \in 1..Len(T.param_types)}
      [] OTHER -> {}

CompoundClasses ==
    {"Pointer", "BlockPointer", "LValueReference", "RValueReference", "MemberPointer",
     "ConstantArray", "IncompleteArray", "VariableArray", "Vector", "ExtVector",
     "Complex", "Atomic", "FunctionNoProto", "FunctionProto"}

\* The nodes of a context: the given ones, the nodes they are built from and
\* their canonical types.
RECURSIVE NodeClosure(_)
NodeClosure(S) ==
    LET more == S \cup UNION {StructuralChildren(n) : n \in S}
                  \cup {CanonicalType(n).ty : n \in S}
                  \cup {desugar(n).ty : n \in {m \in S : isSugared(m)}}
    IN  IF more = S THEN S ELSE NodeClosure(more)

\* The types a translation unit writes over a record A and an enumeration B.
TypesOver(dA, dB) ==
    LET A == RecordType(dA)
        B == EnumType(dB)
        U(Ty) == QualType(Ty, NoQuals)
        ReferenceType(cls, PointeeType) == [cls |-> cls, PointeeType |-> PointeeType]
        MemberPointerType(Class, PointeeType) ==
            [cls |-> "MemberPointer", Class |-> Class, PointeeType |-> PointeeType]
        ElementTypeNode(cls, ElementType) == [cls |-> cls, ElementType |-> ElementType]
        AtomicType(ValueType) == [cls |-> "Atomic", ValueType |-> ValueType]
        FunctionProtoType(ReturnType, param_types) ==
            [cls |-> "FunctionProto", ReturnType |-> ReturnType,
             param_types |-> param_types]
    IN  NodeClosure(
          {ReferenceType("LValueReference", U(B)),
           ArrayType("ConstantArray", QualType(A, QualConst)),
           ElementTypeNode("Vector", U(IntTy)),
           ElementTypeNode("Complex", U(IntTy)),
           AtomicType(U(B)),
           MemberPointerType(A, U(B)),
           FunctionProtoType(U(A), <<U(B), U(IntTy)>>),
           FunctionProtoType(U(A), <<U(IntTy), U(B)>>),
           PointerType(U(TypedefType(U(A), FALSE)))})

\* The declarations drawn: of any linkage; named at namespace scope, named in a
\* function, or unnamed.
TagDecls(name, Ls, kinds) ==
    {TagDecl(name, L, k = "local", k # "unnamed") : L \in Ls, k \in kinds}

MaxQueries == 2

InitLinkage ==
    /\ pc = "idle"
    /\ call = [none |-> TRUE]
    /\ ret = [none |-> TRUE]
    /\ loc = [queries |-> 0]
    /\ \E dA \in TagDecls("A", LinkageSet, {"named", "local", "unnamed"}),
          dB \in TagDecls("B", {"InternalLinkage", "ExternalLinkage"}, {"named", "local"}) :
         TypeBits = [n \in TypesOver(dA, dB) |-> InitialTypeBits]

\* Type::getLinkage
Call_getLinkage ==
    \E T \in DOMAIN TypeBits :
        /\ loc.queries < MaxQueries
        /\ TypeBits' = ensure(T, TypeBits)
        /\ call' = [fn |-> "getLinkage", T |-> T]
        /\ ret' = [v |-> TypeBits'[T].CachedLinkage]
        /\ pc' = "done"
        /\ loc' = [queries |-> loc.queries + 1]

\* Type::hasUnnamedOrLocalType
Call_hasUnnamedOrLocalType ==
    \E T \in DOMAIN TypeBits :
        /\ loc.queries < MaxQueries
        /\ TypeBits' = ensure(T, TypeBits)
        /\ call' = [fn |-> "hasUnnamedOrLocalType", T |-> T]
        /\ ret' = [v |-> TypeBits'[T].CachedLocalOrUnnamed]
        /\ pc' = "done"
        /\ loc' = [queries |-> loc.queries + 1]

NextLinkage == Call_getLinkage \/ Call_hasUnnamedOrLocalType

SpecLinkage == InitLinkage /\ [][NextLinkage]_vars

\* C10: the cached pair of a canonical compound node is the merge of the cached
\* pairs of its immediate children: the least of their linkages, and the OR of
\* their flags, whatever the order of the children.
C10_CompoundIsMergeOfChildren ==
    \A n \in DOMAIN TypeBits :
        (/\ TypeBits[n].CacheValid
         /\ isCanonicalUnqualified(n)
         /\ n.cls \in CompoundClasses)
        => LET kids == StructuralChildren(n)
           IN  /\ \A k \in kids : TypeBits[k].CacheValid
               /\ \E k \in kids : TypeBits[n].CachedLinkage = TypeBits[k].CachedLinkage
               /\ \A k \in kids : LinkageRank(TypeBits[n].CachedLinkage)
                                    <= LinkageRank(TypeBits[k].CachedLinkage)
               /\ TypeBits[n].CachedLocalOrUnnamed
                    = (\E k \in kids : TypeBits[k].CachedLocalOrUnnamed)

\* A function type has been asked for its linkage; a parameter type has a
\* lesser linkage than the return type, and a parameter type, not the return
\* type, is local or unnamed.
C10_Witness ==
    /\ pc = "done"
    /\ call.fn = "getLinkage"
    /\ call.T.cls = "FunctionProto"
    /\ Len(call.T.param_types) = 2
    /\ LinkageRank(ret.v) < LinkageRank(TypeBits[call.T.ReturnType.ty].CachedLinkage)
    /\ TypeBits[call.T].CachedLocalOrUnnamed
    /\ ~TypeBits[call.T.ReturnType.ty].CachedLocalOrUnnamed

\* C11: after any linkage queries, in any order, the queried node's cache is
\* valid, a valid non-canonical node holds the pair of its canonical node, which
\* is valid too, and every node's cached linkage is the linkage recomputed from
\* its canonical type (isLinkageValid).
C11_CacheAgreesWithCanonicalAndStructure ==
    /\ pc = "done" => TypeBits[call.T].CacheValid
    /\ \A n \in DOMAIN TypeBits :
         /\ (TypeBits[n].CacheValid /\ ~isCanonicalUnqualified(n)) =>
               LET CT == CanonicalType(n).ty
               IN  /\ TypeBits[CT].CacheValid
                   /\ TypeBits[n].CachedLinkage = TypeBits[CT].CachedLinkage
                   /\ TypeBits[n].CachedLocalOrUnnamed = TypeBits[CT].CachedLocalOrUnnamed
         /\ isLinkageValid(n, TypeBits)

\* The second query was on a non-canonical node (a pointer to a typedef) whose
\* record has internal linkage and is local: its cache holds that pair.
C11_Witness ==
    /\ pc = "done"
    /\ loc.queries = 2
    /\ ~isCanonicalUnqualified(call.T)
    /\ call.T.cls = "Pointer"
    /\ TypeBits[call.T].CacheValid
    /\ TypeBits[call.T].CachedLinkage = "InternalLinkage"
    /\ TypeBits[call.T].CachedLocalOrUnnamed

\* C12: once a node's cache is valid, no later query changes its cached linkage
\* or flag or clears the valid bit, and computeCachedProperties runs at most
\* once on a node, and only on a canonical one.
C12_WriteOnceComputeOnce ==
    [][\A n \in DOMAIN TypeBits :
          /\ TypeBits[n].CacheValid =>
                /\ TypeBits'[n].CacheValid
                /\ TypeBits'[n].CachedLinkage = TypeBits[n].CachedLinkage
                /\ TypeBits'[n].CachedLocalOrUnnamed = TypeBits[n].CachedLocalOrUnnamed
          /\ TypeBits'[n].ComputeRuns <= 1
          /\ TypeBits'[n].ComputeRuns = 1 => isCanonicalUnqualified(n)]_vars

\* A function type was asked again after its cache was filled: its return type
\* and itself were each computed once.
C12_Witness ==
    /\ pc = "done"
    /\ loc.queries = 2
    /\ call.T.cls = "FunctionProto"
    /\ TypeBits[call.T].ComputeRuns = 1
    /\ TypeBits[call.T.ReturnType.ty].ComputeRuns = 1
    /\ \A n \in DOMAIN TypeBits :
         TypeBits[n].CacheValid => n \in StructuralChildren(call.T) \cup {call.T}

\* ---------------------------------------------------------------------------
\* The cache fill, statement by statement, run by several threads.
\* TypePropertyCache::ensure has no lock and its fields are plain bit-fields:
\* a thread's statements interleave freely with another thread's.
\* ---------------------------------------------------------------------------

Threads == {"t1", "t2"}

\* The children computeCachedProperties asks the cache for, in the order of the
\* calls; a node with none takes its pair from its declaration or its class.
CachedChildren(T) ==
    CASE T.cls \in {"Pointer", "BlockPointer", "LValueReference", "RValueReference",
                    "ObjCObjectPointer"} -> <<T.PointeeType.ty>>
      [] T.cls = "MemberPointer" -> <<T.Class, T.PointeeType.ty>>
      [] T.cls \in {"ConstantArray", "IncompleteArray", "VariableArray",
                    "Vector", "ExtVector", "Complex", "Pipe"} -> <<T.ElementType.ty>>
      [] T.cls = "Atomic" -> <<T.ValueType.ty>>
      [] T.cls = "ObjCObject" -> <<T.BaseType.ty>>
      [] T.cls = "FunctionNoProto" -> <<T.ReturnType.ty>>
      [] T.cls = "FunctionProto" ->
           <<T.ReturnType.ty>> \o [i \in 1..Len(T.param_types) |-> T.param_types[i].ty]
      [] OTHER -> <<>>

\* An activation of ensure(T): the statement it is at, the child of T that
\* computeCachedProperties is at, and the pair computed so far.
Frame(T, at, i, result) == [T |-> T, at |-> at, i |-> i, result |-> result]

EnsureEntry(T) == Frame(T, "check", 1, CachedProperties("ExternalLinkage", FALSE))

\* Mutant: the fields are read as the constructor left them.
Cache_get_Read_Initial(T, bits) == CachedProperties("NoLinkage", FALSE)

\* The return statement of Cache::get: the two fields of the node are read.
Cache_get_Read(T, bits) ==
    CachedProperties(bits[T].CachedLinkage, bits[T].CachedLocalOrUnnamed)

\* One statement of ensure(T), or of the computeCachedProperties(T) it calls:
\* the new cache and the frames that replace this one (none: ensure returns;
\* two: ensure of a child or of the canonical type is entered).
ensure_Statement(f, bits) ==
    LET T == f.T
        kids == CachedChildren(T)
        CT == CanonicalType(T).ty
        at(where) == [f EXCEPT !.at = where]
    IN  CASE f.at = "check" ->
               IF bits[T].CacheValid THEN [bits |-> bits, frames |-> <<>>]
               ELSE IF ~isCanonicalUnqualified(T)
               THEN [bits |-> bits, frames |-> <<at("copyValid"), EnsureEntry(CT)>>]
               ELSE IF kids = <<>>
               THEN [bits |-> [bits EXCEPT ![T].ComputeRuns = @ + 1],
                     frames |-> <<[f EXCEPT !.at = "setValid",
                                            !.result = computeCachedProperties(T, bits).props]>>]
               ELSE [bits |-> [bits EXCEPT ![T].ComputeRuns = @ + 1],
                     frames |-> <<at("get"), EnsureEntry(kids[1])>>]
          [] f.at = "get" ->
               \* Cache::get(child) after its ensure: the child's fields are read
               LET got == Cache_get_Read(kids[f.i], bits)
                   result == IF f.i = 1 THEN got ELSE merge(f.result, got)
               IN  IF f.i = Len(kids)
                   THEN [bits |-> bits,
                         frames |-> <<[f EXCEPT !.at = "setValid", !.result = result]>>]
                   ELSE [bits |-> bits,
                         frames |-> <<[f EXCEPT !.i = @ + 1, !.result = result],
                                      EnsureEntry(kids[f.i + 1])>>]
          [] f.at = "setValid" ->
               [bits |-> [bits EXCEPT ![T].CacheValid = TRUE], frames |-> <<at("setLinkage")>>]
          [] f.at = "setLinkage" ->
               [bits |-> [bits EXCEPT ![T].CachedLinkage = f.result.L],
                frames |-> <<at("setLocal")>>]
          [] f.at = "setLocal" ->
               [bits |-> [bits EXCEPT ![T].CachedLocalOrUnnamed = f.result.local],
                frames |-> <<>>]
          [] f.at = "copyValid" ->
               [bits |-> [bits EXCEPT ![T].CacheValid = TRUE], frames |-> <<at("copyLinkage")>>]
          [] f.at = "copyLinkage" ->
               [bits |-> [bits EXCEPT ![T].CachedLinkage = bits[CT].CachedLinkage],
                frames |-> <<at("copyLocal")>>]
          [] f.at = "copyLocal" ->
               [bits |-> [bits EXCEPT ![T].CachedLocalOrUnnamed = bits[CT].CachedLocalOrUnnamed],
                frames |-> <<>>]

\* A thread is filling when an ensure of its own has found a cache not valid.
Filling(stack) == \E k \in 1..Len(stack) : stack[k].at # "check"

\* Another thread is within a query while this thread fills, or fills while
\* this thread is within a query.
Overlaps(t, stacks) ==
    \E u \in Threads \ {t} :
        /\ stacks[t] # <<>> /\ stacks[u] # <<>>
        /\ Filling(stacks[t]) \/ Filling(stacks[u])

\* The types a translation unit writes over a record A: a pointer to a typedef
\* of A, and a pointer to a member of A of type A.
ThreadTypesOver(dA) ==
    LET A == RecordType(dA)
        U(Ty) == QualType(Ty, NoQuals)
    IN  NodeClosure({PointerType(U(TypedefType(U(A), FALSE))),
                     [cls |-> "MemberPointer", Class |-> A, PointeeType |-> U(A)]})

InitThreads ==
    /\ pc = [t \in Threads |-> "idle"]
    /\ call = [t \in Threads |-> [none |-> TRUE]]
    /\ ret = [t \in Threads |-> [none |-> TRUE]]
    /\ loc = [stack |-> [t \in Threads |-> <<>>], raced |-> FALSE]
    /\ \E dA \in TagDecls("A", {"InternalLinkage", "ExternalLinkage"}, {"named", "local"}) :
         TypeBits = [n \in ThreadTypesOver(dA) |-> InitialTypeBits]

\* Type::getLinkage or Type::hasUnnamedOrLocalType is entered by a thread; each
\* thread makes one query.
Thread_Call(t) ==
    \E T \in DOMAIN TypeBits, fn \in {"getLinkage", "hasUnnamedOrLocalType"} :
        /\ pc[t] = "idle"
        /\ pc' = [pc EXCEPT ![t] = "running"]
        /\ call' = [call EXCEPT ![t] = [fn |-> fn, T |-> T]]
        /\ ret' = [ret EXCEPT ![t] = [none |-> TRUE]]
        /\ LET stacks == [loc.stack EXCEPT ![t] = <<EnsureEntry(T)>>]
           IN  loc' = [stack |-> stacks, raced |-> loc.raced \/ Overlaps(t, stacks)]
        /\ UNCHANGED TypeBits

\* The thread runs the next statement of its innermost ensure.
Thread_Ensure(t) ==
    /\ pc[t] = "running"
    /\ loc.stack[t] # <<>>
    /\ LET stack == loc.stack[t]
           step == ensure_Statement(stack[Len(stack)], TypeBits)
           stacks == [loc.stack EXCEPT ![t] = SubSeq(stack, 1, Len(stack) - 1) \o step.frames]
       IN  /\ TypeBits' = step.bits
           /\ loc' = [loc EXCEPT !.stack = stacks,
                                 !.raced = @ \/ Overlaps(t, loc.stack) \/ Overlaps(t, stacks)]
    /\ UNCHANGED <<pc, call, ret>>

\* ensure has returned: the query reads the field it answers with.
Thread_Return(t) ==
    /\ pc[t] = "running"
    /\ loc.stack[t] = <<>>
    /\ ret' = [ret EXCEPT ![t] =
                 [v |-> IF call[t].fn = "getLinkage"
                        THEN TypeBits[call[t].T].CachedLinkage
                        ELSE TypeBits[call[t].T].CachedLocalOrUnnamed]]
    /\ pc' = [pc EXCEPT ![t] = "done"]
    /\ UNCHANGED <<call, loc, TypeBits>>

NextThreads ==
    \E t \in Threads : Thread_Call(t) \/ Thread_Ensure(t) \/ Thread_Return(t)

SpecThreads == InitThreads /\ [][NextThreads]_vars

\* What a query of fn on T answers when one thread runs alone.
SingleThreaded(fn, T) ==
    LET b == ensure(T, [n \in DOMAIN TypeBits |-> InitialTypeBits])
    IN  IF fn = "getLinkage" THEN b[T].CachedLinkage ELSE b[T].CachedLocalOrUnnamed

isNull(T) == T.ty = NullTy

Out(qt, made) == [qt |-> qt, made |-> made]

\* ctx.getQualifiedType as the transformation uses it; fast qualifiers set on
\* the null type leave it null.
withQualifiers(T, Quals) == IF isNull(T) THEN NullQualType ELSE getQualifiedType(T, Quals)

ObjCSubstitutionContexts == {"Ordinary", "Result", "Parameter", "Property", "Superclass"}

ObjCTypeParamType(Index, UnderlyingType) ==
    [cls |-> "ObjCTypeParam", decl |-> [Index |-> Index, UnderlyingType |-> UnderlyingType]]

ObjCObjectType(BaseType, TypeArgs, KindOf) ==
    [cls |-> "ObjCObject", BaseType |-> BaseType, TypeArgs |-> TypeArgs, KindOf |-> KindOf]

ObjCInterfaceType(name) == [cls |-> "ObjCInterface", decl |-> [name |-> name]]

\* ObjCObjectType::isKindOfType
RECURSIVE ObjCObjectType_isKindOfType(_)
ObjCObjectType_isKindOfType(T) ==
    IF T.cls = "ObjCObject" /\ T.KindOf THEN TRUE
    ELSE IF T.cls = "ObjCObject" /\ T.BaseType.ty.cls = "ObjCObject"
         THEN ObjCObjectType_isKindOfType(T.BaseType.ty)
         ELSE FALSE

\* ObjCObjectPointerType::isObjCIdOrClassType: an unqualified id or Class
isObjCIdOrClassType(objPtr) ==
    /\ objPtr.PointeeType.ty.cls = "ObjCObject"
    /\ objPtr.PointeeType.ty.BaseType.ty \in {BuiltinType("ObjCId"), BuiltinType("ObjCClass")}

\* The children a visitor of SimpleTransformVisitor rewrites with recurse and
\* compares one by one, in the order of the calls.
VisitedFields(T) ==
    CASE T.cls \in {"Complex", "ConstantArray", "VariableArray", "IncompleteArray",
                    "Vector", "ExtVector"} -> <<"ElementType">>
      [] T.cls \in {"Pointer", "BlockPointer", "LValueReference", "RValueReference",
                    "MemberPointer", "ObjCObjectPointer"} -> <<"PointeeType">>
      [] T.cls = "FunctionNoProto" -> <<"ReturnType">>
      [] T.cls = "Paren" -> <<"InnerType">>
      [] T.cls = "Adjusted" -> <<"OriginalType", "AdjustedType">>
      [] T.cls = "Decayed" -> <<"OriginalType">>
      [] T.cls = "Attributed" -> <<"ModifiedType", "EquivalentType">>
      [] T.cls = "SubstTemplateTypeParm" -> <<"ReplacementType">>
      [] T.cls = "Auto" -> IF T.Deduced THEN <<"DeducedType">> ELSE <<>>
      [] T.cls = "Atomic" -> <<"ValueType">>
      [] OTHER -> <<>>

RECURSIVE substObjCTypeArgs(_, _, _)
RECURSIVE SimpleTransformVisitor_Visit(_, _, _)
RECURSIVE substObjCTypeArgs_lambda(_, _, _)

\* Mutant: a null child is taken as it comes.
RECURSIVE VisitFields_KeepsNull(_, _, _, _, _, _)
VisitFields_KeepsNull(T, i, built, made, typeArgs, context) ==
    LET fields == VisitedFields(T) IN
    IF i > Len(fields)
    THEN IF built = T THEN Out(QualType(T, NoQuals), made)
         ELSE Out(QualType(built, NoQuals), TRUE)
    ELSE LET r == substObjCTypeArgs(T[fields[i]], typeArgs, context)
         IN  VisitFields_KeepsNull(T, i + 1, [built EXCEPT ![fields[i]] = r.qt],
                                   made \/ r.made, typeArgs, context)

\* Mutant: the node is built anew even when no child has changed.
RECURSIVE VisitFields_AlwaysBuilds(_, _, _, _, _, _)
VisitFields_AlwaysBuilds(T, i, built, made, typeArgs, context) ==
    LET fields == VisitedFields(T) IN
    IF i > Len(fields)
    THEN Out(QualType(built, NoQuals), fields # <<>>)
    ELSE LET r == substObjCTypeArgs(T[fields[i]], typeArgs, context)
         IN  IF isNull(r.qt) THEN Out(NullQualType, made \/ r.made)
             ELSE VisitFields_AlwaysBuilds(T, i + 1, [built EXCEPT ![fields[i]] = r.qt],
                                           made \/ r.made, typeArgs, context)

\* The visitors of the classes with one or two rewritten children: each child
\* is rewritten, a null child ends the visit with null; when no child has
\* changed the node itself is returned, else the context builds the node with
\* the new children and the other parts of T.
RECURSIVE VisitFields(_, _, _, _, _, _)
VisitFields(T, i, built, made, typeArgs, context) ==
    LET fields == VisitedFields(T) IN
    IF i > Len(fields)
    THEN IF built = T THEN Out(QualType(T, NoQuals), made)
         ELSE Out(QualType(built, NoQuals), TRUE)
    ELSE LET r == substObjCTypeArgs(T[fields[i]], typeArgs, context)
         IN  IF isNull(r.qt) THEN Out(NullQualType, made \/ r.made)
             ELSE VisitFields(T, i + 1, [built EXCEPT ![fields[i]] = r.qt],
                              made \/ r.made, typeArgs, context)

\* The loops over parameter types, exception types and type arguments: each is
\* rewritten in the given context and pushed; a null one ends the loop.
RECURSIVE TransformEach(_, _, _, _, _, _)
TransformEach(types, i, out, made, typeArgs, context) ==
    IF i > Len(types) THEN [null |-> FALSE, types |-> out, made |-> made]
    ELSE LET r == substObjCTypeArgs(types[i], typeArgs, context)
         IN  IF isNull(r.qt) THEN [null |-> TRUE, types |-> out, made |-> made \/ r.made]
             ELSE TransformEach(types, i + 1, Append(out, r.qt), made \/ r.made,
                                typeArgs, context)

\* The exception types of a function type are rewritten only for a dynamic
\* exception specification.
TransformExceptions(T, made, typeArgs, context) ==
    IF T.ExceptionSpecType = "EST_Dynamic"
    THEN TransformEach(T.Exceptions, 1, <<>>, made, typeArgs, context)
    ELSE [null |-> FALSE, types |-> T.Exceptions, made |-> made]

\* The function type the callers build, or the one they had when nothing changed.
FunctionProtoResult(type, returnType, params, exceptions) ==
    LET T == type.ty IN
    IF returnType.qt = T.ReturnType /\ params.types = T.param_types
                                    /\ exceptions.types = T.Exceptions
    THEN Out(type, exceptions.made)
    ELSE Out(QualType([T EXCEPT !.ReturnType = returnType.qt,
                                !.param_types = params.types,
                                !.Exceptions = exceptions.types], NoQuals), TRUE)

SimpleTransformVisitor_Visit(T, typeArgs, context) ==
    CASE T.cls = "FunctionProto" ->
           LET returnType == substObjCTypeArgs(T.ReturnType, typeArgs, context) IN
           IF isNull(returnType.qt) THEN returnType ELSE
           LET params == TransformEach(T.param_types, 1, <<>>, returnType.made,
                                       typeArgs, context) IN
           IF params.null THEN Out(NullQualType, params.made) ELSE
           LET exceptions == TransformExceptions(T, params.made, typeArgs, context) IN
           IF exceptions.null THEN Out(NullQualType, exceptions.made)
           ELSE FunctionProtoResult(QualType(T, NoQuals), returnType, params, exceptions)
      [] T.cls = "ObjCObject" ->
           LET baseType == substObjCTypeArgs(T.BaseType, typeArgs, context) IN
           IF isNull(baseType.qt) THEN baseType ELSE
           LET args == TransformEach(T.TypeArgs, 1, <<>>, baseType.made, typeArgs, context) IN
           IF args.null THEN Out(NullQualType, args.made)
           ELSE IF baseType.qt = T.BaseType /\ args.types = T.TypeArgs
           THEN Out(QualType(T, NoQuals), args.made)
           ELSE Out(QualType([T EXCEPT !.BaseType = baseType.qt, !.TypeArgs = args.types],
                             NoQuals), TRUE)
      [] OTHER -> VisitFields(T, 1, T, FALSE, typeArgs, context)

\* Mutant: the loop substitutes the type arguments under every condition.
RECURSIVE lambda_typeArgLoop_NeverCollapses(_, _, _, _, _, _)
lambda_typeArgLoop_NeverCollapses(type, i, newTypeArgs, made, typeArgs, context) ==
    LET T == type.ty IN
    IF i > Len(T.TypeArgs)
    THEN IF newTypeArgs # T.TypeArgs
         THEN Out(QualType([T EXCEPT !.TypeArgs = newTypeArgs], NoQuals), TRUE)
         ELSE Out(type, made)
    ELSE LET r == substObjCTypeArgs(T.TypeArgs[i], typeArgs, "Ordinary")
         IN  IF isNull(r.qt) THEN Out(NullQualType, made \/ r.made)
             ELSE lambda_typeArgLoop_NeverCollapses(type, i + 1, Append(newTypeArgs, r.qt),
                                                    made \/ r.made, typeArgs, context)

\* The loop of the lambda over the type arguments of a specialized object type.
RECURSIVE lambda_typeArgLoop(_, _, _, _, _, _)
lambda_typeArgLoop(type, i, newTypeArgs, made, typeArgs, context) ==
    LET T == type.ty IN
    IF i > Len(T.TypeArgs)
    THEN IF newTypeArgs # T.TypeArgs
         THEN Out(QualType([T EXCEPT !.TypeArgs = newTypeArgs], NoQuals), TRUE)
         ELSE Out(type, made)
    ELSE LET r == substObjCTypeArgs(T.TypeArgs[i], typeArgs, "Ordinary")
         IN  IF isNull(r.qt) THEN Out(NullQualType, made \/ r.made)
             ELSE IF r.qt # T.TypeArgs[i] /\ typeArgs = <<>> /\ context # "Superclass"
             THEN Out(QualType([T EXCEPT !.TypeArgs = <<>>], NoQuals), TRUE)
             ELSE lambda_typeArgLoop(type, i + 1, Append(newTypeArgs, r.qt), made \/ r.made,
                                     typeArgs, context)

\* Mutant: the bound is substituted as it is in every context.
substObjCTypeArgs_bound_Plain(typeParam, Quals, context) ==
    Out(withQualifiers(typeParam.UnderlyingType, Quals), FALSE)

\* The switch on the context, when there are no type arguments.
substObjCTypeArgs_bound(typeParam, Quals, context) ==
    IF context \in {"Ordinary", "Parameter", "Superclass"}
    THEN Out(withQualifiers(typeParam.UnderlyingType, Quals), FALSE)
    ELSE LET objPtr == getUnqualifiedDesugaredType(typeParam.UnderlyingType.ty)
             obj == objPtr.PointeeType.ty
         IN  IF ObjCObjectType_isKindOfType(obj) \/ isObjCIdOrClassType(objPtr)
             THEN Out(withQualifiers(typeParam.UnderlyingType, Quals), FALSE)
             ELSE LET resultTy ==  \* an interface type is its own base type
                          IF obj.cls = "ObjCObject"
                          THEN ObjCObjectType(obj.BaseType, obj.TypeArgs, TRUE)
                          ELSE ObjCObjectType(QualType(obj, NoQuals), <<>>, TRUE)
                  IN  Out(withQualifiers(
                            QualType([cls |-> "ObjCObjectPointer",
                                      PointeeType |-> QualType(resultTy, NoQuals)], NoQuals),
                            Quals), TRUE)

\* The lambda substObjCTypeArgs hands to simpleTransform.  The references drawn
\* carry no protocol list.
substObjCTypeArgs_lambda(type, typeArgs, context) ==
    LET T == type.ty IN
    CASE T.cls = "ObjCTypeParam" ->
           IF typeArgs # <<>>
           THEN Out(withQualifiers(typeArgs[T.decl.Index + 1], type.quals), FALSE)
           ELSE substObjCTypeArgs_bound(T.decl, type.quals, context)
      [] T.cls \in {"FunctionNoProto", "FunctionProto"} ->
           LET returnType == substObjCTypeArgs(T.ReturnType, typeArgs, "Result") IN
           IF isNull(returnType.qt) THEN returnType
           ELSE IF T.cls = "FunctionNoProto"
           THEN IF returnType.qt = T.ReturnType THEN Out(type, returnType.made)
                ELSE Out(QualType([T EXCEPT !.ReturnType = returnType.qt], NoQuals), TRUE)
           ELSE
           LET params == TransformEach(T.param_types, 1, <<>>, returnType.made,
                                       typeArgs, "Parameter") IN
           IF params.null THEN Out(NullQualType, params.made) ELSE
           LET exceptions == TransformExceptions(T, params.made, typeArgs, "Ordinary") IN
           IF exceptions.null THEN Out(NullQualType, exceptions.made)
           ELSE FunctionProtoResult(type, returnType, params, exceptions)
      [] T.cls = "ObjCObject" ->
           IF T.TypeArgs # <<>>
           THEN lambda_typeArgLoop(type, 1, <<>>, FALSE, typeArgs, context)
           ELSE Out(type, FALSE)
      [] OTHER -> Out(type, FALSE)

\* Mutant: the local qualifiers of the node are put back on what the lambda
\* returned for it.
substObjCTypeArgs_RequalifiesRoot(type, typeArgs, context) ==
    LET transformed == substObjCTypeArgs_lambda(type, typeArgs, context) IN
    IF transformed.qt # type
    THEN Out(withQualifiers(transformed.qt, type.quals), transformed.made)
    ELSE LET result == SimpleTransformVisitor_Visit(type.ty, typeArgs, context)
             made == transformed.made \/ result.made
         IN  IF isNull(result.qt) THEN Out(NullQualType, made)
             ELSE Out(withQualifiers(result.qt, type.quals), made)

\* simpleTransform with the lambda of substObjCTypeArgs.
substObjCTypeArgs(type, typeArgs, context) ==
    LET transformed == substObjCTypeArgs_lambda(type, typeArgs, context) IN
    IF transformed.qt # type THEN transformed
    ELSE LET result == SimpleTransformVisitor_Visit(type.ty, typeArgs, context)
             made == transformed.made \/ result.made
         IN  IF isNull(result.qt) THEN Out(NullQualType, made)
             ELSE Out(withQualifiers(result.qt, type.quals), made)

\* The types substObjCTypeArgs is called on: written in a class with the type
\* parameters T0 (bound id), T1 (bound NSObject *) and K (bound __kindof
\* NSObject *).
MaxNesting == 2

SubstInputs(nesting) ==
    LET U(Ty) == QualType(Ty, NoQuals)
        ObjPtr(pointee) == U([cls |-> "ObjCObjectPointer", PointeeType |-> pointee])
        IntQT == U(IntTy)
        Interface(name) == U(ObjCInterfaceType(name))
        NSObjectPtr == ObjPtr(Interface("NSObject"))
        T0 == ObjCTypeParamType(0, ObjPtr(U(ObjCObjectType(U(BuiltinType("ObjCId")), <<>>, FALSE))))
        T1 == ObjCTypeParamType(1, NSObjectPtr)
        K  == ObjCTypeParamType(1, ObjPtr(U(ObjCObjectType(Interface("NSObject"), <<>>, TRUE))))
        NSArray(args) == ObjCObjectType(Interface("NSArray"), args, FALSE)
        Leaves == {IntQT, NSObjectPtr, U(T0), U(T1), U(K), QualType(T1, QualConst),
                   ObjPtr(U(NSArray(<<NSObjectPtr>>))),
                   ObjPtr(U(NSArray(<<U(T1)>>))),
                   QualType(NSArray(<<U(T1)>>), QualConst),
                   ObjPtr(U(ObjCObjectType(Interface("NSArray"), <<U(K)>>, TRUE))),
                   ObjPtr(QualType(NSArray(<<U(T0), QualType(T1, QualConst)>>), QualConst))}
        Function(ReturnType, param_types, est, Exceptions) ==
            U([cls |-> "FunctionProto", ReturnType |-> ReturnType,
               param_types |-> param_types, ExceptionSpecType |-> est,
               Exceptions |-> Exceptions])
        One(cls, field, x) == U([cls |-> cls] @@ (field :> x))
        Two(cls, f1, x, f2, y) == U([cls |-> cls] @@ (f1 :> x) @@ (f2 :> y))
        Nested(x) == {One("Pointer", "PointeeType", x),
                      Function(x, <<IntQT>>, "EST_None", <<>>)}
        RECURSIVE Core(_)
        Core(k) == IF k = 0 THEN Leaves
                   ELSE Core(k - 1) \cup UNION {Nested(x) : x \in Core(k - 1)}
        Shapes(x) ==
            {One(c, "ElementType", x) : c \in {"Complex", "ConstantArray", "VariableArray",
                                                "IncompleteArray", "Vector", "ExtVector"}}
            \cup {One(c, "PointeeType", x) : c \in {"Pointer", "BlockPointer",
                                                    "LValueReference", "RValueReference"}}
            \cup {Two("MemberPointer", "PointeeType", x, "Class", RecordType(ForwardDecl(TRUE))),
                  One("FunctionNoProto", "ReturnType", x),
                  One("Paren", "InnerType", x),
                  One("Decayed", "OriginalType", x),
                  One("SubstTemplateTypeParm", "ReplacementType", x),
                  One("Atomic", "ValueType", x),
                  Two("Adjusted", "OriginalType", IntQT, "AdjustedType", x),
                  Two("Adjusted", "OriginalType", x, "AdjustedType", U(T0)),
                  U([cls |-> "Attributed", AttrKind |-> "attr_nonnull",
                     ModifiedType |-> x, EquivalentType |-> x]),
                  U([cls |-> "Auto", Deduced |-> TRUE, DeducedType |-> x]),
                  U([cls |-> "Auto", Deduced |-> FALSE, DeducedType |-> NullQualType]),
                  U(TypedefType(IntQT, FALSE)),
                  QualType(One("Pointer", "PointeeType", x).ty, QualConst),
                  ObjPtr(U(NSArray(<<U(T0), x>>))),
                  ObjPtr(U(NSArray(<<x, U(T0)>>))),
                  Function(x, <<IntQT, U(T0)>>, "EST_None", <<>>),
                  Function(U(T0), <<IntQT, x>>, "EST_None", <<>>),
                  Function(IntQT, <<IntQT>>, "EST_Dynamic", <<x>>),
                  Function(IntQT, <<>>, "EST_Dynamic", <<U(T0), x>>)}
    IN  Core(nesting - 1) \cup UNION {Shapes(x) : x \in Core(nesting - 1)}

\* The type arguments handed in: none, one for each parameter, or a list with a
\* null type in it.
SubstTypeArgs ==
    LET NSStringPtr == QualType([cls |-> "ObjCObjectPointer",
                                 PointeeType |-> QualType(ObjCInterfaceType("NSString"), NoQuals)],
                                NoQuals)
    IN  {<<>>, <<NSStringPtr, NSStringPtr>>, <<NSStringPtr, NullQualType>>,
         <<NullQualType, NSStringPtr>>}

InitSubst ==
    /\ pc = "call"
    /\ call \in {[fn |-> "substObjCTypeArgs", type |-> t, typeArgs |-> a, context |-> c] :
                   t \in SubstInputs(MaxNesting), a \in SubstTypeArgs,
                   c \in ObjCSubstitutionContexts}
    /\ ret = [none |-> TRUE]
    /\ loc = NoLoc
    /\ TypeBits = NoBits

\* QualType::substObjCTypeArgs
Call_substObjCTypeArgs ==
    /\ pc = "call"
    /\ ret' = substObjCTypeArgs(call.type, call.typeArgs, call.context)
    /\ pc' = "done"
    /\ UNCHANGED <<call, loc, TypeBits>>

NextSubst == Call_substObjCTypeArgs

SpecSubst == InitSubst /\ [][NextSubst]_vars

\* The children of a type that the transformation rewrites.
RewrittenChildren(type) ==
    LET T == type.ty IN
    CASE T.cls = "FunctionProto" ->
           <<T.ReturnType>> \o T.param_types
             \o (IF T.ExceptionSpecType = "EST_Dynamic" THEN T.Exceptions ELSE <<>>)
      [] T.cls = "ObjCObject" -> <<T.BaseType>> \o T.TypeArgs
      [] OTHER -> [i \in 1..Len(VisitedFields(T)) |-> T[VisitedFields(T)[i]]]

\* The type has a reference to an ObjC type parameter of one of the indexes.
RECURSIVE HasTypeParamReference(_, _)
HasTypeParamReference(type, Indexes) ==
    \/ type.ty.cls = "ObjCTypeParam" /\ type.ty.decl.Index \in Indexes
    \/ \E i \in 1..Len(RewrittenChildren(type)) :
          HasTypeParamReference(RewrittenChildren(type)[i], Indexes)
    \/ type.ty.cls = "Typedef" /\ HasTypeParamReference(type.ty.decl.UnderlyingType, Indexes)

MentionsObjCTypeParam(type) == HasTypeParamReference(type, {0, 1})

\* C14: a type with no reference to an ObjC type parameter comes back as it
\* went in, the same node with the same local qualifiers, and no node is built,
\* whatever the type arguments and the context.
C14_NoReferenceNoChange ==
    (pc = "done" /\ ~MentionsObjCTypeParam(call.type)) =>
        /\ ret.qt = call.type
        /\ ~ret.made

\* A function type with a dynamic exception specification and parameters, free
\* of references, is handed in with type arguments and is returned unchanged.
C14_Witness ==
    /\ pc = "done"
    /\ ~MentionsObjCTypeParam(call.type)
    /\ call.type.ty.cls = "FunctionProto"
    /\ call.type.ty.ExceptionSpecType = "EST_Dynamic"
    /\ Len(call.type.ty.Exceptions) = 1
    /\ call.type.ty.Exceptions[1].ty.cls = "Pointer"
    /\ call.typeArgs # <<>>
    /\ ret.qt = call.type

\* C15: when the argument for some reference that the rewrite comes to is the
\* null type, the whole result is the null type.
C15_NullPropagates ==
    LET NullArgs == {i - 1 : i \in {j \in 1..Len(call.typeArgs) : isNull(call.typeArgs[j])}}
    IN  (pc = "done" /\ HasTypeParamReference(call.type, NullArgs)) => isNull(ret.qt)

\* A function type whose return type is rewritten to a type argument and whose
\* second parameter is rewritten to null yields null.
C15_Witness ==
    /\ pc = "done"
    /\ call.type.ty.cls = "FunctionProto"
    /\ call.typeArgs # <<>>
    /\ ~isNull(call.typeArgs[1]) /\ isNull(call.typeArgs[2])
    /\ call.type.ty.ReturnType.ty.cls = "ObjCTypeParam"
    /\ call.type.ty.ReturnType.ty.decl.Index = 0
    /\ Len(call.type.ty.param_types) = 2
    /\ call.type.ty.param_types[2].ty.cls = "ObjCTypeParam"
    /\ call.type.ty.param_types[2].ty.decl.Index = 1
    /\ isNull(ret.qt)

\* The bound a reference stands for in a context: the declared bound, made
\* __kindof in the Result and Property contexts unless it is __kindof, id or
\* Class already.
BoundIn(decl, context) ==
    LET objPtr == getUnqualifiedDesugaredType(decl.UnderlyingType.ty)
        obj == objPtr.PointeeType.ty
    IN  IF \/ context \notin {"Result", "Property"}
           \/ ObjCObjectType_isKindOfType(obj)
           \/ isObjCIdOrClassType(objPtr)
        THEN decl.UnderlyingType
        ELSE QualType([cls |-> "ObjCObjectPointer",
                       PointeeType |->
                         QualType(ObjCObjectType(IF obj.cls = "ObjCObject" THEN obj.BaseType
                                                 ELSE QualType(obj, NoQuals),
                                                 IF obj.cls = "ObjCObject" THEN obj.TypeArgs
                                                 ELSE <<>>, TRUE), NoQuals)], NoQuals)

\* The type with every reference replaced by its bound, the reference's local
\* qualifiers added: return types in the Result context, parameter types in the
\* Parameter context, exception types and type arguments in the Ordinary one.
\* With unspecialize, an object type with a reference among its type arguments
\* is instead the unqualified object type, without type arguments outside the
\* Superclass context.
RECURSIVE WithBounds(_, _, _)
WithBounds(type, context, unspecialize) ==
    LET T == type.ty
        W(x, c) == WithBounds(x, c, unspecialize)
        Each(types, c) == [i \in 1..Len(types) |-> W(types[i], c)]
    IN  CASE T.cls = "ObjCTypeParam" -> withQualifiers(BoundIn(T.decl, context), type.quals)
          [] T.cls = "FunctionProto" ->
               QualType([T EXCEPT !.ReturnType = W(T.ReturnType, "Result"),
                                  !.param_types = Each(T.param_types, "Parameter"),
                                  !.Exceptions = IF T.ExceptionSpecType = "EST_Dynamic"
                                                 THEN Each(T.Exceptions, "Ordinary")
                                                 ELSE T.Exceptions], type.quals)
          [] T.cls = "FunctionNoProto" ->
               QualType([T EXCEPT !.ReturnType = W(T.ReturnType, "Result")], type.quals)
          [] T.cls = "ObjCObject" ->
               IF unspecialize /\ Each(T.TypeArgs, "Ordinary") # T.TypeArgs
               THEN IF context # "Superclass"
                    THEN QualType([T EXCEPT !.TypeArgs = <<>>], NoQuals)
                    ELSE QualType([T EXCEPT !.TypeArgs = Each(T.TypeArgs, "Ordinary")], NoQuals)
               ELSE QualType([T EXCEPT !.TypeArgs = Each(T.TypeArgs, "Ordinary")], type.quals)
          [] OTHER ->
               LET fields == {VisitedFields(T)[i] : i \in 1..Len(VisitedFields(T))}
               IN  QualType([f \in DOMAIN T |-> IF f \in fields THEN W(T[f], context) ELSE T[f]],
                            type.quals)

\* C16 as stated: with no type arguments, the result is the type with every
\* reference replaced by its bound, and is not the input.
C16_EveryReferenceBecomesBound ==
    (pc = "done" /\ call.typeArgs = <<>> /\ MentionsObjCTypeParam(call.type)) =>
        /\ ret.qt = WithBounds(call.type, call.context, FALSE)
        /\ ret.qt # call.type

\* C16, amended: the same, but that an object type with a reference among its
\* type arguments loses its type arguments (outside the Superclass context) and
\* its local qualifiers.
C16_ReferenceBecomesBoundOrUnspecialized ==
    (pc = "done" /\ call.typeArgs = <<>> /\ MentionsObjCTypeParam(call.type)) =>
        /\ ret.qt = WithBounds(call.type, call.context, TRUE)
        /\ ret.qt # call.type

\* In the Property context, a pointer to const T1, T1 bound to NSObject *, has
\* become a pointer to const __kindof NSObject *.
C16_Witness ==
    /\ pc = "done"
    /\ call.typeArgs = <<>>
    /\ call.context = "Property"
    /\ call.type.ty.cls = "Pointer"
    /\ call.type.ty.PointeeType.ty.cls = "ObjCTypeParam"
    /\ "const" \in call.type.ty.PointeeType.quals.cvr
    /\ ret.qt.ty.cls = "Pointer"
    /\ ret.qt.ty.PointeeType.ty.cls = "ObjCObjectPointer"
    /\ ret.qt.ty.PointeeType.ty.PointeeType.ty.KindOf
    /\ "const" \in ret.qt.ty.PointeeType.quals.cvr

\* C17 as stated: isTrivialType answers false for every dependent type, arrays
\* included.
C17_DependentNeverTrivial ==
    (pc = "done" /\ call.fn = "isTrivialType") =>
        /\ isDependentType(call.T.ty) => ~ret.element
        /\ isDependentType(call.A.ty) => ~ret.array

\* C17, amended: isTrivialType answers false for every type whose base element
\* type is dependent, whatever array is built over it.
C17_DependentBaseElementNeverTrivial ==
    (pc = "done" /\ call.fn = "isTrivialType" /\ isDependentType(call.T.ty)) =>
        ~ret.element /\ ~ret.array

\* A pointer to a template parameter, a scalar type, and an array of constant
\* bound of it have been answered false.
C17_Witness ==
    /\ pc = "done"
    /\ call.fn = "isTrivialType"
    /\ call.T.ty = PointerType(QualType(TemplateTypeParmType("T"), NoQuals))
    /\ call.shape = <<"ConstantArray">>
    /\ ~ret.element /\ ~ret.array

AllPredicates == QualTypePredicates \cup PODPredicates \cup {"isLiteralType"}

\* C18 as stated: every predicate answers false for an incomplete type.
C18_IncompleteNeverPasses ==
    (pc = "done" /\ call.fn \in AllPredicates) =>
        /\ isIncompleteType(call.T.ty) => ~ret.element
        /\ isIncompleteType(call.A.ty) => ~ret.array

\* C18, amended: every predicate answers false for void (isLiteralType only
\* before C++14), for a forward-declared record or enumeration, and for an
\* array, of known or unknown bound, whose base element type is incomplete.
C18_IncompleteBaseElementNeverPasses ==
    (pc = "done" /\ call.fn \in AllPredicates /\ isIncompleteType(call.T.ty)) =>
        /\ ~(call.fn = "isLiteralType" /\ call.CPlusPlus14 /\ isVoidType(call.T.ty))
              => ~ret.element
        /\ ~ret.array

\* A forward-declared class, whose declaration would say POD, and an array of
\* unknown bound of it have been answered false by isCXX11PODType.
C18_Witness ==
    /\ pc = "done"
    /\ call.fn = "isCXX11PODType"
    /\ call.T.ty = RecordType(ForwardDecl(TRUE))
    /\ call.T.ty.decl.POD
    /\ call.shape = <<"IncompleteArray">>
    /\ ~ret.element /\ ~ret.array

UndeducedPlaceholder(Ty) ==
    LET C == CanonicalType(Ty).ty IN C.cls = "Auto" /\ ~C.Deduced

\* C19 as stated: isLiteralType answers true whenever the canonical base element
\* type is a placeholder not deduced yet, dependent or not.
C19_PlaceholderAlwaysLiteral ==
    (pc = "done" /\ call.fn = "isLiteralType" /\ UndeducedPlaceholder(call.T.ty)) =>
        ret.element /\ ret.array

\* C19, amended: it does so for a type that is not dependent and not a
\* variable-length array; for a dependent type the answer is false.
C19_NonDependentPlaceholderLiteral ==
    (pc = "done" /\ call.fn = "isLiteralType" /\ UndeducedPlaceholder(call.T.ty)) =>
        /\ ret.element = ~isDependentType(call.T.ty)
        /\ (~isDependentType(call.A.ty) /\ CanonicalType(call.A.ty).ty.cls # "VariableArray")
              => ret.array
        /\ isDependentType(call.A.ty) => ~ret.array

\* auto, not deduced and not dependent, and an array of arrays of it, have been
\* answered true.
C19_Witness ==
    /\ pc = "done"
    /\ call.fn = "isLiteralType"
    /\ call.T.ty = AutoType(FALSE, NullQualType, FALSE)
    /\ call.shape = <<"IncompleteArray", "ConstantArray">>
    /\ ret.element /\ ret.array

\* Every qualifier of Part is among those of Whole.
QualifiersWithin(Part, Whole) ==
    /\ Part.cvr \subseteq Whole.cvr
    /\ hasObjCGCAttr(Part) => Whole.gc = Part.gc
    /\ hasAddressSpace(Part) => Whole.as = Part.as
    /\ hasObjCLifetime(Part) => Whole.lt = Part.lt

\* C20: getSingleStepDesugaredTypeImpl strips exactly one sugar layer.  On a
\* type whose node is not sugared it returns the input: same node, same
\* qualifiers.  On a sugared node it returns the node and qualifiers of that
\* node's desugar() with the input's local qualifiers added: the result holds
\* every qualifier of the input and of the layer below, and no other.
C20_SingleStepKeepsQualifiers ==
    (pc = "done" /\ call.fn = "getSingleStepDesugaredTypeImpl") =>
        IF ~isSugared(call.T.ty)
        THEN ret.v = call.T
        ELSE LET below == desugar(call.T.ty)
             IN  /\ ret.v.ty = below.ty
                 /\ QualifiersWithin(call.T.quals, ret.v.quals)
                 /\ QualifiersWithin(below.quals, ret.v.quals)
                 /\ ret.v.quals.cvr = call.T.quals.cvr \cup below.quals.cvr
                 /\ hasObjCGCAttr(ret.v.quals) => hasObjCGCAttr(call.T.quals)
                 /\ hasAddressSpace(ret.v.quals) => hasAddressSpace(call.T.quals)
                 /\ hasObjCLifetime(ret.v.quals) => hasObjCLifetime(call.T.quals)

\* A const type with strong lifetime, spelled through a typedef of a volatile
\* typedef: one step leaves the inner typedef, const, volatile and strong.
C20_Witness ==
    /\ pc = "done"
    /\ call.fn = "getSingleStepDesugaredTypeImpl"
    /\ SugarDepth(call.T.ty) = 2
    /\ call.T.ty.cls = "Typedef"
    /\ call.T.quals = [NoQuals EXCEPT !.cvr = {"const"}, !.lt = "OCL_Strong"]
    /\ SugarDepth(ret.v.ty) = 1
    /\ ret.v.quals = [NoQuals EXCEPT !.cvr = {"const", "volatile"}, !.lt = "OCL_Strong"]

\* The local qualifiers of a type and of the underlying type of every sugar
\* layer below it, down to the first node that is not sugared.
RECURSIVE ChainQualifiers(_)
ChainQualifiers(T) ==
    {T.quals} \cup (IF isSugared(T.ty) THEN ChainQualifiers(desugar(T.ty)) ELSE {})

\* Single-step desugaring iterated until it changes the type no more.
RECURSIVE SingleStepFixedPoint(_)
SingleStepFixedPoint(T) ==
    LET next == getSingleStepDesugaredTypeImpl(T)
    IN  IF next = T THEN T ELSE SingleStepFixedPoint(next)

\* C21: getSplitDesugaredType returns the first node of the single-step chain
\* that is not sugared, the node that iterating single-step desugaring ends at,
\* with the qualifiers of the input and of every layer's underlying type: each
\* of them is in the result, and the result holds no cvr qualifier beyond them.
C21_FullDesugarAccumulatesQualifiers ==
    (pc = "split" /\ call.fn = "getDesugaredType" /\ loc.results = <<>>) =>
        /\ ~isSugared(loc.split.Ty)
        /\ loc.split.Ty = SingleStepFixedPoint(call.T).ty
        /\ \A q \in ChainQualifiers(call.T) : QualifiersWithin(q, loc.split.Quals)
        /\ loc.split.Quals.cvr = UNION {q.cvr : q \in ChainQualifiers(call.T)}
        /\ loc.split.Quals = SingleStepFixedPoint(call.T).quals

\* A type with a GC attribute, spelled through two sugar layers whose
\* underlying types are volatile and const: all three come out on int.
C21_Witness ==
    /\ pc = "split"
    /\ call.fn = "getDesugaredType"
    /\ loc.results = <<>>
    /\ SugarDepth(call.T.ty) = 2
    /\ call.T.quals = [NoQuals EXCEPT !.gc = "Weak"]
    /\ loc.split.Ty = IntTy
    /\ loc.split.Quals = [NoQuals EXCEPT !.cvr = {"const", "volatile"}, !.gc = "Weak"]

\* The nodes of the single-step desugaring chain of a node, the node first and
\* the node that is not sugared last.
RECURSIVE SugarChain(_)
SugarChain(Ty) ==
    <<Ty>> \o (IF isSugared(Ty) THEN SugarChain(desugar(Ty).ty) ELSE <<>>)

\* C22: sugar search returns the first node of the requested kind on the
\* single-step chain that starts at the queried node, the queried node
\* included, and null if and only if the chain holds no node of that kind.
C22_SugarSearchFindsNearest ==
    (pc = "done" /\ call.fn = "getAsSugar") =>
        LET chain == SugarChain(call.T.ty)
            hits == {i \in 1..Len(chain) : chain[i].cls = call.kind}
        IN  /\ (ret.v = NullTy) <=> (hits = {})
            /\ hits # {} =>
                  \E i \in hits : /\ ret.v = chain[i]
                                   /\ \A j \in hits : i <= j

\* getAs<TypedefType> on an attributed type over a typedef of an unsugared
\* type has returned the typedef, one step below the queried node.
C22_Witness ==
    /\ pc = "done"
    /\ call.fn = "getAsSugar"
    /\ call.kind = "Typedef"
    /\ call.T.ty.cls = "Attributed"
    /\ SugarDepth(call.T.ty) = 2
    /\ ret.v = desugar(call.T.ty).ty
    /\ ret.v.cls = "Typedef"

\* typeof(e) with e type-dependent, decltype(e) with e instantiation-dependent.
DependentShape(Ty) ==
    \/ Ty.cls = "TypeOfExpr" /\ Ty.TypeDependent
    \/ Ty.cls = "Decltype" /\ Ty.InstantiationDependent

\* What single-step and full desugaring do at a dependent shape: the shape is
\* not sugar and desugars to itself, a single step and a full desugaring of it
\* return it with its qualifiers, and a traversal of a chain that ends at one
\* returns that node.
StopsAtDependentShape ==
    LET last == SugarChain(call.T.ty)[Len(SugarChain(call.T.ty))]
    IN  /\ DependentShape(call.T.ty) =>
              /\ ~isSugared(call.T.ty)
              /\ desugar(call.T.ty) = QualType(call.T.ty, NoQuals)
              /\ call.fn = "getSingleStepDesugaredTypeImpl" => ret.v = call.T
              /\ call.fn = "getDesugaredType" => ret.first = call.T
        /\ DependentShape(last) =>
              /\ call.fn = "getDesugaredType" => ret.first.ty = last
              /\ call.fn = "getUnqualifiedDesugaredType" => ret.v = last

\* C23 as stated: sugar search, too, returns the dependent shape it is run on.
C23_DependentShapesReturnedByAll ==
    pc = "done" =>
        /\ StopsAtDependentShape
        /\ (call.fn = "getAsSugar" /\ DependentShape(call.T.ty)) => ret.v = call.T.ty

\* C23, amended: a type-dependent typeof and an instantiation-dependent
\* decltype are not sugar and desugar to themselves; single-step and full
\* desugaring stop at them and return them unchanged; sugar search stops at
\* them and returns null, a dependent shape being none of the kinds searched.
C23_DependentShapesNeverSugar ==
    pc = "done" =>
        /\ StopsAtDependentShape
        /\ (call.fn = "getAsSugar" /\ DependentShape(call.T.ty)) => ret.v = NullTy
        /\ (call.fn = "getAsSugar" /\ DependentShape(ret.v)) => FALSE

\* A const typedef of a volatile decltype(e), e instantiation-dependent, has
\* been fully desugared: the decltype node is returned, const and volatile.
C23_Witness ==
    /\ pc = "done"
    /\ call.fn = "getDesugaredType"
    /\ call.T.ty.cls = "Typedef"
    /\ call.T.quals = QualConst
    /\ ret.first.ty = DecltypeType(TRUE, DependentTy)
    /\ ret.first.quals.cvr = {"const", "volatile"}
    /\ ret.second = ret.first

\* C24: when the transform returns for the root a type other than the one it
\* was given, simpleTransform returns that type as it is: the children of the
\* root are not visited and the root's local qualifiers are not put back.  When
\* the transform returns its input, the result is what the visitor builds from
\* the root's node, null if that is null, under the root's local qualifiers.
C24_RootShortCircuit ==
    pc = "done" =>
        LET transformed == substObjCTypeArgs_lambda(call.type, call.typeArgs, call.context).qt
            visited == SimpleTransformVisitor_Visit(call.type.ty, call.typeArgs,
                                                    call.context).qt
        IN  IF transformed # call.type
            THEN ret.qt = transformed
            ELSE IF isNull(visited) THEN isNull(ret.qt)
            ELSE /\ ret.qt.ty = visited.ty
                 /\ QualifiersWithin(call.type.quals, ret.qt.quals)
                 /\ QualifiersWithin(visited.quals, ret.qt.quals)
                 /\ ret.qt.quals.cvr = call.type.quals.cvr \cup visited.quals.cvr

\* const NSArray<T1> with type arguments supplied: the transform returns the
\* object type with the argument substituted, and that is the result, without
\* the const of the root.
C24_Witness ==
    /\ pc = "done"
    /\ call.type.ty.cls = "ObjCObject"
    /\ call.type.quals = QualConst
    /\ Len(call.typeArgs) = 2 /\ ~isNull(call.typeArgs[2])
    /\ ret.qt.ty.cls = "ObjCObject"
    /\ ret.qt.ty.TypeArgs = <<call.typeArgs[2]>>
    /\ ret.qt.quals = NoQuals

\* The specialized object type a call is about, the type given or what a given
\* object pointer points to, and the type found at that place in the result.
SpecializedObject(type) ==
    IF type.ty.cls = "ObjCObjectPointer" THEN type.ty.PointeeType ELSE type

IsSpecializedObject(type) ==
    /\ SpecializedObject(type).ty.cls = "ObjCObject"
    /\ SpecializedObject(type).ty.TypeArgs # <<>>

SubstitutedObject ==
    IF call.type.ty.cls = "ObjCObjectPointer" THEN ret.qt.ty.PointeeType ELSE ret.qt

\* The written type arguments of an object type, each substituted.
SubstitutedTypeArgs(obj) ==
    [i \in 1..Len(obj.TypeArgs) |->
        substObjCTypeArgs(obj.TypeArgs[i], call.typeArgs, "Ordinary").qt]

\* C25 as stated: without arguments and outside the Superclass context every
\* specialized object type comes back without type arguments; otherwise it
\* comes back with each written argument substituted.
C25_SpecializedAlwaysCollapses ==
    (pc = "done" /\ IsSpecializedObject(call.type) /\ ~isNull(ret.qt)) =>
        LET obj == SpecializedObject(call.type).ty IN
        IF call.typeArgs = <<>> /\ call.context # "Superclass"
        THEN SubstitutedObject.ty = [obj EXCEPT !.TypeArgs = <<>>]
        ELSE SubstitutedObject.ty = [obj EXCEPT !.TypeArgs = SubstitutedTypeArgs(obj)]

\* C25, amended: a specialized object type of which substitution changes some
\* written type argument comes back with the same base type and __kindof flag
\* and no type arguments when no arguments are supplied and the context is not
\* Superclass, and with each written argument substituted otherwise; one of
\* which substitution changes no written argument comes back as it is, type
\* arguments included; a null substituted argument makes the result null.
C25_ChangedSpecializedCollapses ==
    (pc = "done" /\ IsSpecializedObject(call.type)) =>
        LET obj == SpecializedObject(call.type).ty
            args == SubstitutedTypeArgs(obj)
        IN  IF \E i \in 1..Len(args) : isNull(args[i]) THEN isNull(ret.qt)
            ELSE IF args = obj.TypeArgs THEN ret.qt = call.type
            ELSE IF call.typeArgs = <<>> /\ call.context # "Superclass"
            THEN SubstitutedObject.ty = [obj EXCEPT !.TypeArgs = <<>>]
            ELSE SubstitutedObject.ty = [obj EXCEPT !.TypeArgs = args]

\* A pointer to __kindof NSArray<K>, substituted without arguments in the
\* Property context, points to __kindof NSArray.
C25_Witness ==
    /\ pc = "done"
    /\ IsSpecializedObject(call.type)
    /\ call.type.ty.cls = "ObjCObjectPointer"
    /\ call.type.ty.PointeeType.ty.KindOf
    /\ call.typeArgs = <<>>
    /\ call.context = "Property"
    /\ ret.qt.ty.PointeeType.ty =
           ObjCObjectType(call.type.ty.PointeeType.ty.BaseType, <<>>, TRUE)

\* C26: for a trivially copyable union, hasUniqueObjectRepresentations is true
\* if and only if every field has unique object representations and is as
\* large as the union; so it is true for a union with no fields, which an empty
\* struct of the same size never gets.
C26_UnionUniqueIff ==
    LET RD == call.T.ty.decl
        EmptyStruct == QualType(RecordType([RD EXCEPT !.Union = FALSE]), call.T.quals)
    IN  (/\ pc = "done"
         /\ call.fn = "hasUniqueObjectRepresentations"
         /\ call.T.ty.cls = "Record"
         /\ RD.Union
         /\ isTriviallyCopyableType(call.T))
        => /\ ret.v = \A i \in 1..Len(RD.fields) :
                         /\ hasUniqueObjectRepresentations(RD.fields[i].Type)
                         /\ getTypeSizeInChars(RD.fields[i].Type) = RD.Size
           /\ Len(RD.fields) = 0 =>
                 ret.v /\ ~hasUniqueObjectRepresentations(EmptyStruct)

\* A union of an int and a char, four bytes large: both fields have unique
\* object representations, the char does not fill the union, the answer is
\* false.
C26_Witness ==
    LET RD == call.T.ty.decl
    IN  /\ pc = "done"
        /\ call.T.ty.cls = "Record"
        /\ RD.Union
        /\ Len(RD.fields) = 2
        /\ RD.fields[1].Type.ty = IntTy
        /\ RD.fields[2].Type.ty = BuiltinType("Char")
        /\ RD.Size = 4
        /\ ret.v = FALSE

\* The destruction kind a type has by its lifetime qualifier and by the class
\* its base element type names.
DestructionKindOf(T) ==
    LET lt == getCanonicalType(T).quals.lt
        base == CanonicalType(getBaseElementTypeUnsafe(T.ty)).ty
    IN  IF lt = "OCL_Strong" THEN "DK_objc_strong_lifetime"
        ELSE IF lt = "OCL_Weak" THEN "DK_objc_weak_lifetime"
        ELSE IF /\ base.cls = "Record"
                /\ base.decl.CXX
                /\ base.decl.CompleteDefinition
                /\ ~base.decl.hasTrivialDestructor
             THEN "DK_cxx_destructor"
             ELSE "DK_none"

\* C27: isDestructedTypeImpl answers by the lifetime qualifier first, strong
\* for Strong and weak for Weak; without one of these it answers the C++
\* destructor kind exactly for a type whose base element type is a defined C++
\* class with a non-trivial destructor, and none for every other type.
C27_LifetimeThenDestructor ==
    (pc = "done" /\ call.fn = "isDestructedTypeImpl") =>
        /\ ret.element = DestructionKindOf(call.T)
        /\ ret.array = DestructionKindOf(call.A)
        /\ call.T.quals.lt = "OCL_Strong" => ret.array = "DK_objc_strong_lifetime"
        /\ call.T.quals.lt = "OCL_Weak" => ret.array = "DK_objc_weak_lifetime"
        /\ (call.T.ty.cls = "Record" /\ ~call.T.ty.decl.CompleteDefinition)
              => ret.array = "DK_none"

\* An array of arrays of a class with a non-trivial destructor, named through
\* a const typedef, has the C++ destructor kind.
C27_Witness ==
    /\ pc = "done"
    /\ call.fn = "isDestructedTypeImpl"
    /\ Len(call.shape) = 2
    /\ call.A.ty.cls = "Typedef"
    /\ call.A.quals = QualConst
    /\ call.T.ty.cls = "Record"
    /\ ~call.T.ty.decl.hasTrivialDestructor
    /\ ret.array = "DK_cxx_destructor"
    /\ ret.element = "DK_cxx_destructor"

\* ---------------------------------------------------------------------------
\* simpleTransform with the lambda of QualType::stripObjCKindOfType.
\* ---------------------------------------------------------------------------
RECURSIVE stripObjCKindOfType(_)

\* The visitors of the classes with one or two rewritten children.
RECURSIVE stripObjCKindOfType_VisitFields(_, _, _)
stripObjCKindOfType_VisitFields(T, i, built) ==
    LET fields == VisitedFields(T) IN
    IF i > Len(fields) THEN QualType(built, NoQuals)
    ELSE LET r == stripObjCKindOfType(T[fields[i]])
         IN  IF isNull(r) THEN NullQualType
             ELSE stripObjCKindOfType_VisitFields(T, i + 1, [built EXCEPT ![fields[i]] = r])

\* The loops over parameter types, exception types and type arguments.
RECURSIVE stripObjCKindOfType_Each(_, _, _)
stripObjCKindOfType_Each(types, i, out) ==
    IF i > Len(types) THEN [null |-> FALSE, types |-> out]
    ELSE LET r == stripObjCKindOfType(types[i])
         IN  IF isNull(r) THEN [null |-> TRUE, types |-> out]
             ELSE stripObjCKindOfType_Each(types, i + 1, Append(out, r))

stripObjCKindOfType_Visit(T) ==
    CASE T.cls = "FunctionProto" ->
           LET returnType == stripObjCKindOfType(T.ReturnType)
               params == stripObjCKindOfType_Each(T.param_types, 1, <<>>)
               exceptions == IF T.ExceptionSpecType = "EST_Dynamic"
                             THEN stripObjCKindOfType_Each(T.Exceptions, 1, <<>>)
                             ELSE [null |-> FALSE, types |-> T.Exceptions]
           IN  IF isNull(returnType) \/ params.null \/ exceptions.null THEN NullQualType
               ELSE QualType([T EXCEPT !.ReturnType = returnType,
                                       !.param_types = params.types,
                                       !.Exceptions = exceptions.types], NoQuals)
      [] T.cls = "ObjCObject" ->
           LET baseType == stripObjCKindOfType(T.BaseType)
               args == stripObjCKindOfType_Each(T.TypeArgs, 1, <<>>)
           IN  IF isNull(baseType) \/ args.null THEN NullQualType
               ELSE QualType([T EXCEPT !.BaseType = baseType, !.TypeArgs = args.types],
                             NoQuals)
      [] OTHER -> stripObjCKindOfType_VisitFields(T, 1, T)

\* The lambda: a __kindof object type, looked for through sugar, is built anew
\* over its stripped base type, with its type arguments as written.
stripObjCKindOfType_lambda(type) ==
    LET objType == getUnqualifiedDesugaredType(type.ty) IN
    IF objType.cls = "ObjCObject" /\ ObjCObjectType_isKindOfType(objType)
    THEN LET baseType == stripObjCKindOfType(objType.BaseType)
         IN  getQualifiedType(
                 QualType(ObjCObjectType(baseType, objType.TypeArgs, FALSE), NoQuals),
                 type.quals)
    ELSE type

stripObjCKindOfType(type) ==
    LET transformed == stripObjCKindOfType_lambda(type) IN
    IF transformed # type THEN transformed
    ELSE LET result == stripObjCKindOfType_Visit(type.ty)
         IN  IF isNull(result) THEN result
             ELSE getQualifiedType(result, type.quals)

\* The types stripObjCKindOfType is called on: those of the substitution, and
\* object pointer types with __kindof on the object type, on a type argument,
\* or on both, bare and inside pointers and function types.
StripInputs(nesting) ==
    LET U(Ty) == QualType(Ty, NoQuals)
        ObjPtr(pointee) == U([cls |-> "ObjCObjectPointer", PointeeType |-> pointee])
        Interface(name) == U(ObjCInterfaceType(name))
        Object(kindof) ==
            IF kindof THEN ObjPtr(U(ObjCObjectType(Interface("NSObject"), <<>>, TRUE)))
            ELSE ObjPtr(Interface("NSObject"))
        KindOfTypes ==
            {Object(TRUE), ObjPtr(QualType(ObjCObjectType(Interface("NSObject"), <<>>, TRUE),
                                           QualConst))}
            \cup {ObjPtr(U(ObjCObjectType(Interface("NSArray"), <<Object(a)>>, k))) :
                     a \in BOOLEAN, k \in BOOLEAN}
            \cup {ObjPtr(U(ObjCObjectType(Interface("NSDictionary"),
                                          <<Object(a), Object(b)>>, k))) :
                     a \in BOOLEAN, b \in BOOLEAN, k \in BOOLEAN}
        Wrapped(x) ==
            {x, U(PointerType(x)), QualType(PointerType(x), QualConst),
             U([cls |-> "BlockPointer", PointeeType |->
                   U([cls |-> "FunctionProto", ReturnType |-> x,
                      param_types |-> <<x, U(IntTy)>>, ExceptionSpecType |-> "EST_None",
                      Exceptions |-> <<>>])])}
    IN  SubstInputs(nesting) \cup UNION {Wrapped(x) : x \in KindOfTypes}

InitStrip ==
    /\ pc = "call"
    /\ call \in {[fn |-> "stripObjCKindOfType", type |-> t] : t \in StripInputs(MaxNesting)}
    /\ ret = [none |-> TRUE]
    /\ loc = NoLoc
    /\ TypeBits = NoBits

\* QualType::stripObjCKindOfType; the caller strips the result once more.
Call_stripObjCKindOfType ==
    /\ pc = "call"
    /\ ret' = [once |-> stripObjCKindOfType(call.type),
               twice |-> stripObjCKindOfType(stripObjCKindOfType(call.type))]
    /\ pc' = "done"
    /\ UNCHANGED <<call, loc, TypeBits>>

NextStrip == Call_stripObjCKindOfType

SpecStrip == InitStrip /\ [][NextStrip]_vars

\* The type has an object type that is __kindof, at the type itself or at a
\* child the transformation rewrites.
RECURSIVE ContainsKindOf(_)
ContainsKindOf(type) ==
    \/ type.ty.cls = "ObjCObject" /\ ObjCObjectType_isKindOfType(type.ty)
    \/ \E i \in 1..Len(RewrittenChildren(type)) : ContainsKindOf(RewrittenChildren(type)[i])

\* The type with the __kindof flag of every such object type taken off and all
\* else as it is.
RECURSIVE WithoutKindOf(_)
WithoutKindOf(type) ==
    LET T == type.ty
        fields == VisitedFields(T)
        Each(types) == [i \in 1..Len(types) |-> WithoutKindOf(types[i])]
        node ==
          CASE T.cls = "FunctionProto" ->
                 [T EXCEPT !.ReturnType = WithoutKindOf(@), !.param_types = Each(@),
                           !.Exceptions = IF T.ExceptionSpecType = "EST_Dynamic"
                                          THEN Each(@) ELSE @]
            [] T.cls = "ObjCObject" ->
                 [T EXCEPT !.BaseType = WithoutKindOf(@), !.TypeArgs = Each(@),
                           !.KindOf = FALSE]
            [] OTHER ->
                 [f \in DOMAIN T |->
                    IF \E i \in 1..Len(fields) : fields[i] = f
                    THEN WithoutKindOf(T[f]) ELSE T[f]]
    IN  QualType(node, type.quals)

\* C28: stripObjCKindOfType leaves no __kindof object type in its result,
\* keeps base types, type arguments, protocol lists and local qualifiers as
\* they are, gives the same when applied to its result, and returns its input
\* when that holds no __kindof.
C28_StripRemovesEveryKindOf ==
    (pc = "done" /\ call.fn = "stripObjCKindOfType") =>
        /\ ~ContainsKindOf(ret.once)
        /\ ret.once = WithoutKindOf(call.type)
        /\ ret.twice = ret.once
        /\ ~ContainsKindOf(call.type) => ret.once = call.type

\* A pointer to __kindof NSArray<__kindof NSObject *> has been stripped: the
\* result is a pointer to NSArray<__kindof NSObject *>, and stripping that
\* gives a pointer to NSArray<NSObject *>.
C28_Witness ==
    /\ pc = "done"
    /\ call.fn = "stripObjCKindOfType"
    /\ call.type.ty.cls = "ObjCObjectPointer"
    /\ call.type.ty.PointeeType.ty.cls = "ObjCObject"
    /\ call.type.ty.PointeeType.ty.KindOf
    /\ Len(call.type.ty.PointeeType.ty.TypeArgs) = 1
    /\ ContainsKindOf(call.type.ty.PointeeType.ty.TypeArgs[1])
    /\ ~ret.once.ty.PointeeType.ty.KindOf
    /\ ContainsKindOf(ret.once)
    /\ ~ContainsKindOf(ret.twice)

\* ---------------------------------------------------------------------------
\* Type::containsCheckedValue.  The switch is on the class of the canonical
\* type, which is the class of the node under the sugar; the children are
\* canonicalized by the calls on them.
\* ---------------------------------------------------------------------------
RECURSIVE containsCheckedValue(_)

\* The loop over RT->getDecl()->fields(), from field i on.
RECURSIVE containsCheckedValue_fieldLoop(_, _, _)
containsCheckedValue_fieldLoop(fields, i, hasCheckedField) ==
    IF i > Len(fields) THEN hasCheckedField
    ELSE LET FD == fields[i]
         IN  IF isRecordType(FD.Type.ty)
             THEN containsCheckedValue_fieldLoop(fields, i + 1,
                                                 containsCheckedValue(FD.Type.ty))
             ELSE IF containsCheckedValue(FD.Type.ty) /\ FD.hasBoundsExpr THEN TRUE
             ELSE containsCheckedValue_fieldLoop(fields, i + 1, hasCheckedField)

containsCheckedValue(Ty) ==
    LET current == getUnqualifiedDesugaredType(Ty) IN
    CASE current.cls = "Pointer" ->
           IF current.Checked THEN TRUE
           ELSE containsCheckedValue(current.PointeeType.ty)
      [] current.cls \in ArrayClasses ->
           IF current.Checked THEN TRUE
           ELSE containsCheckedValue(current.ElementType.ty)
      [] current.cls = "FunctionProto" ->
           \/ containsCheckedValue(current.ReturnType.ty)
           \/ \E i \in 1..Len(current.param_types) :
                 containsCheckedValue(current.param_types[i].ty)
      [] current.cls = "Record" ->
           containsCheckedValue_fieldLoop(current.decl.fields, 1, FALSE)
      [] OTHER -> FALSE

\* The record types containsCheckedValue is asked of: up to most fields, each
\* one of: an int; a checked pointer, with and without a bounds expression; an
\* unchecked pointer to a checked one; a checked array; an unchecked array of
\* records; a function pointer; a record with a bounded checked pointer
\* (Counted), with an int (Plain), with a checked pointer without bounds, with
\* a Counted member, and a typedef of Counted.
CheckedRecords(most) ==
    LET U(Ty) == QualType(Ty, NoQuals)
        Ptr(checked, pointee) ==
            [cls |-> "Pointer", PointeeType |-> U(pointee), Checked |-> checked]
        Arr(checked, element) ==
            [cls |-> "ConstantArray", ElementType |-> U(element), Checked |-> checked]
        Field(Ty, bounds) == [Type |-> U(Ty), hasBoundsExpr |-> bounds]
        Rec(fields) == RecordType([fields |-> fields])
        Counted == Rec(<<Field(Ptr(TRUE, IntTy), TRUE)>>)
        Plain == Rec(<<Field(IntTy, FALSE)>>)
        Fn == [cls |-> "FunctionProto", ReturnType |-> U(IntTy),
               param_types |-> <<U(IntTy), U(Ptr(TRUE, IntTy))>>]
        Fields ==
            {Field(IntTy, FALSE), Field(Ptr(TRUE, IntTy), TRUE), Field(Ptr(TRUE, IntTy), FALSE),
             Field(Ptr(FALSE, Ptr(TRUE, IntTy)), TRUE), Field(Arr(TRUE, IntTy), TRUE),
             Field(Arr(FALSE, Counted), TRUE), Field(Ptr(FALSE, Fn), TRUE),
             Field(Counted, FALSE), Field(Plain, FALSE),
             Field(Rec(<<Field(Ptr(TRUE, IntTy), FALSE)>>), FALSE),
             Field(Rec(<<Field(Counted, FALSE)>>), FALSE),
             Field(TypedefType(U(Counted), FALSE), FALSE)}
    IN  {Rec(fields) : fields \in UNION {[1..n -> Fields] : n \in 0..most}}

\* The record with the fields declared in the opposite order.
Reversed(T) ==
    LET fields == T.decl.fields
    IN  RecordType([fields |-> [i \in 1..Len(fields) |-> fields[Len(fields) + 1 - i]]])

InitChecked ==
    /\ pc = "call"
    /\ call \in {[fn |-> "containsCheckedValue", T |-> T] : T \in CheckedRecords(MaxFields)}
    /\ ret = [none |-> TRUE]
    /\ loc = NoLoc
    /\ TypeBits = NoBits

\* Type::containsCheckedValue, asked of a record type and of the record type
\* with the same fields in the opposite order.
Call_containsCheckedValue ==
    /\ pc = "call"
    /\ ret' = [v |-> containsCheckedValue(call.T),
               reversed |-> containsCheckedValue(Reversed(call.T))]
    /\ pc' = "done"
    /\ UNCHANGED <<call, loc, TypeBits>>

NextChecked == Call_containsCheckedValue

SpecChecked == InitChecked /\ [][NextChecked]_vars

\* At least one field of the record contains a checked value: a record-typed
\* field whose record does, or another field whose type does and that has a
\* bounds expression.
RECURSIVE HasCheckedField(_)
HasCheckedField(T) ==
    \E i \in 1..Len(T.decl.fields) :
        LET FD == T.decl.fields[i]
        IN  IF isRecordType(FD.Type.ty)
            THEN HasCheckedField(getUnqualifiedDesugaredType(FD.Type.ty))
            ELSE containsCheckedValue(FD.Type.ty) /\ FD.hasBoundsExpr

\* C29: for a record type containsCheckedValue is true if and only if at least
\* one field contains a checked value, and the answer is the same for the
\* record with the same fields declared in another order.
C29_AnyFieldAnyOrder ==
    (pc = "done" /\ call.fn = "containsCheckedValue") =>
        /\ ret.v = HasCheckedField(call.T)
        /\ ret.v = ret.reversed

\* A record of a record with a bounded checked pointer followed by a record
\* with an int gets false; with the two fields in the other order it gets true.
C29_Witness ==
    /\ pc = "done"
    /\ call.fn = "containsCheckedValue"
    /\ Len(call.T.decl.fields) = 2
    /\ call.T.decl.fields[1].Type.ty.cls = "Record"
    /\ call.T.decl.fields[2].Type.ty.cls = "Record"
    /\ HasCheckedField(call.T.decl.fields[1].Type.ty)
    /\ ~HasCheckedField(call.T.decl.fields[2].Type.ty)
    /\ ~ret.v
    /\ ret.reversed

\* ---------------------------------------------------------------------------
\* ConstantArrayType::getNumAddressingBits.  uint64_t, and the size type in
\* which the element count is given, are WordBits wide here; "32" is half of
\* that, and the arbitrary-precision product has twice the width.
\* ---------------------------------------------------------------------------
WordBits == 6

HalfBits == WordBits \div 2

RECURSIVE Pow2(_)
Pow2(n) == IF n = 0 THEN 1 ELSE 2 * Pow2(n - 1)

\* APInt::getActiveBits: the bits up to the highest one set.
RECURSIVE getActiveBits(_)
getActiveBits(x) == IF x = 0 THEN 0 ELSE 1 + getActiveBits(x \div 2)

isPowerOf2_64(Value) == \E k \in 0..(WordBits - 1) : Value = Pow2(k)

Log2_64(Value) == getActiveBits(Value) - 1

countLeadingZeros(Value) == WordBits - getActiveBits(Value)

getNumAddressingBits(ElementSize, NumElements) ==
    IF isPowerOf2_64(ElementSize)
    THEN getActiveBits(NumElements) + Log2_64(ElementSize)
    ELSE IF ElementSize \div Pow2(HalfBits) = 0 /\ NumElements \div Pow2(HalfBits) = 0
    THEN LET TotalSize == (NumElements * ElementSize) % Pow2(WordBits)
         IN  WordBits - countLeadingZeros(TotalSize)
    ELSE LET TotalSize == (ElementSize * NumElements) % Pow2(2 * WordBits)
         IN  getActiveBits(TotalSize)

InitBits ==
    /\ pc = "call"
    /\ call \in [fn : {"getNumAddressingBits"},
                  ElementSize : 0..(Pow2(WordBits) - 1),
                  NumElements : 0..(Pow2(WordBits) - 1)]
    /\ ret = [none |-> TRUE]
    /\ loc = NoLoc
    /\ TypeBits = NoBits

Call_getNumAddressingBits ==
    /\ pc = "call"
    /\ ret' = [v |-> getNumAddressingBits(call.ElementSize, call.NumElements)]
    /\ pc' = "done"
    /\ UNCHANGED <<call, loc, TypeBits>>

NextBits == Call_getNumAddressingBits

SpecBits == InitBits /\ [][NextBits]_vars

\* C30: on each of its three paths getNumAddressingBits returns the number of
\* significant bits of the product of the element count and the element size,
\* for every count, zero included, and every size.
C30_BitsOfProduct ==
    (pc = "done" /\ call.fn = "getNumAddressingBits") =>
        ret.v = getActiveBits(call.NumElements * call.ElementSize)

\* No element of size four: the product is 0, which has no significant bit,
\* and the answer is 2.
C30_Witness ==
    /\ pc = "done"
    /\ call.fn = "getNumAddressingBits"
    /\ call.NumElements = 0
    /\ call.ElementSize = 4
    /\ ret.v = 2

====
